---- MODULE Spec2Model ----
(***************************************************************************)
(* A model of the search orchestration engine of price-comparison-api:     *)
(* SearchService.SearchProducts with its validation, cache-aside lookup,   *)
(* concurrent fan-out over the scrapers, normalisation, filter, sort and   *)
(* pagination stages, and RedisCache's key derivation and get/set.         *)
(*                                                                         *)
(* Representation.                                                         *)
(*  - A Go string is a sequence of one-character strings.                  *)
(*  - A Go int is a 64-bit two's complement number, kept as 8 little-endian*)
(*    limbs of 8 bits (TLC's own integers are 32 bits wide).               *)
(*  - A Go float64 is a whole number of 1/256ths (a binary grid, so every  *)
(*    value of the model is an exact float64), or one of NaN and PosInf.   *)
(*  - A Go pointer or slice that may be nil is <<>> when nil and <<v>>     *)
(*    when it holds v.                                                     *)
(***************************************************************************)
EXTENDS Integers, Sequences, FiniteSets, Bags, TLC

(* ------------------------------ nil-able values ------------------------ *)

Nil == <<>>

Some(v) == <<v>>

IsNil(p) == p = <<>>

Val(p) == p[1]

(* ---------------------------------- strings ---------------------------- *)

LowerLetters ==
  << "a","b","c","d","e","f","g","h","i","j","k","l","m",
     "n","o","p","q","r","s","t","u","v","w","x","y","z" >>

UpperLetters ==
  << "A","B","C","D","E","F","G","H","I","J","K","L","M",
     "N","O","P","Q","R","S","T","U","V","W","X","Y","Z" >>

Digits == << "0","1","2","3","4","5","6","7","8","9" >>

IsDigit(c) == \E i \in 1..10 : Digits[i] = c

DigitVal(c) == (CHOOSE i \in 1..10 : Digits[i] = c) - 1

\* unicode.IsSpace on the characters the model uses
IsSpace(c) == c \in {" ", "\t", "\n", "\r"}

ToUpperChar(c) ==
  IF \E i \in 1..26 : LowerLetters[i] = c
  THEN UpperLetters[CHOOSE i \in 1..26 : LowerLetters[i] = c]
  ELSE c

ToLowerChar(c) ==
  IF \E i \in 1..26 : UpperLetters[i] = c
  THEN LowerLetters[CHOOSE i \in 1..26 : UpperLetters[i] = c]
  ELSE c

\* strings.ToUpper
ToUpper(s) == [i \in 1..Len(s) |-> ToUpperChar(s[i])]

\* strings.ToLower
ToLower(s) == [i \in 1..Len(s) |-> ToLowerChar(s[i])]

\* strings.Contains(s, sub)
Contains(s, sub) ==
  \E i \in 0..(Len(s) - Len(sub)) : SubSeq(s, i + 1, i + Len(sub)) = sub

\* strings.ReplaceAll(s, c, "") for a one-character c
RemoveChar(s, c) == SelectSeq(s, LAMBDA x : x # c)

RECURSIVE TrimLeft(_)
TrimLeft(s) == IF s # <<>> /\ IsSpace(Head(s)) THEN TrimLeft(Tail(s)) ELSE s

RECURSIVE TrimRight(_)
TrimRight(s) ==
  IF s # <<>> /\ IsSpace(s[Len(s)]) THEN TrimRight(SubSeq(s, 1, Len(s) - 1)) ELSE s

\* strings.TrimSpace
TrimSpace(s) == TrimRight(TrimLeft(s))

\* The decimal digits of a natural number, as fmt's %d prints them.
RECURSIVE NatToStr(_)
NatToStr(n) ==
  IF n < 10 THEN << Digits[n + 1] >>
  ELSE NatToStr(n \div 10) \o << Digits[(n % 10) + 1] >>

\* The digits of n, padded with zeros on the left to width w.
RECURSIVE PadZero(_, _)
PadZero(s, w) == IF Len(s) >= w THEN s ELSE PadZero(<< "0" >> \o s, w)

RECURSIVE Pow10(_)
Pow10(p) == IF p = 0 THEN 1 ELSE 10 * Pow10(p - 1)

(* ------------------------------ 64-bit integers ------------------------ *)

LimbBase == 2^8

NumLimbs == 2 * 2 * 2

I64Zero == [i \in 1..NumLimbs |-> 0]

\* limb-wise x + y + carry, modulo 2^64
RECURSIVE AddLimbs(_, _, _, _)
AddLimbs(x, y, i, carry) ==
  IF i > NumLimbs THEN <<>>
  ELSE LET t == x[i] + y[i] + carry
       IN  << t % LimbBase >> \o AddLimbs(x, y, i + 1, t \div LimbBase)

I64Add(x, y) == AddLimbs(x, y, 1, 0)

I64Not(x) == [i \in 1..NumLimbs |-> (LimbBase - 1) - x[i]]

I64One == [i \in 1..NumLimbs |-> IF i = 1 THEN 1 ELSE 0]

I64Neg(x) == I64Add(I64Not(x), I64One)

I64Sub(x, y) == I64Add(x, I64Neg(y))

\* The limbs of a natural number below 2^31
RECURSIVE NatLimbs(_, _)
NatLimbs(n, i) ==
  IF i > NumLimbs THEN <<>>
  ELSE << n % LimbBase >> \o NatLimbs(n \div LimbBase, i + 1)

\* int(n) for a model integer n
I64(n) == IF n >= 0 THEN NatLimbs(n, 1) ELSE I64Neg(NatLimbs(0 - n, 1))

I64IsNeg(x) == x[NumLimbs] >= LimbBase \div 2

\* unsigned comparison from the top limb down
RECURSIVE LimbsLess(_, _, _)
LimbsLess(x, y, i) ==
  IF i = 0 THEN FALSE
  ELSE IF x[i] # y[i] THEN x[i] < y[i]
  ELSE LimbsLess(x, y, i - 1)

\* x < y on int
I64Lt(x, y) ==
  IF I64IsNeg(x) # I64IsNeg(y) THEN I64IsNeg(x) ELSE LimbsLess(x, y, NumLimbs)

I64Le(x, y) == x = y \/ I64Lt(x, y)

\* column k of the schoolbook product, with the carry of the columns below
RECURSIVE MulLimbs(_, _, _, _)
MulLimbs(x, y, k, carry) ==
  IF k > NumLimbs THEN <<>>
  ELSE LET RECURSIVE Col(_)
           Col(i) == IF i > k THEN 0 ELSE x[i] * y[k + 1 - i] + Col(i + 1)
           t == Col(1) + carry
       IN  << t % LimbBase >> \o MulLimbs(x, y, k + 1, t \div LimbBase)

\* x * y on int: the low 64 bits of the product
I64Mul(x, y) == MulLimbs(x, y, 1, 0)

\* The model integer of an int that is known to lie in 0 .. 2^23
I64ToNat(x) == x[1] + LimbBase * x[2] + LimbBase * LimbBase * x[3]

I64IsSmallNat(x) == \A i \in 4..NumLimbs : x[i] = 0

\* unsigned division by 10 from the top limb down: <<quotient, remainder>>
RECURSIVE DivTen(_, _, _)
DivTen(x, i, rem) ==
  IF i = 0 THEN << <<>>, rem >>
  ELSE LET t    == rem * LimbBase + x[i]
           rest == DivTen(x, i - 1, t % 10)
       IN  << rest[1] \o << t \div 10 >>, rest[2] >>

RECURSIVE UDecimal(_)
UDecimal(x) ==
  LET qr == DivTen(x, NumLimbs, 0)
  IN  IF qr[1] = I64Zero THEN << Digits[qr[2] + 1] >>
      ELSE UDecimal(qr[1]) \o << Digits[qr[2] + 1] >>

\* fmt's %d of an int
FormatInt(x) == IF I64IsNeg(x) THEN << "-" >> \o UDecimal(I64Neg(x)) ELSE UDecimal(x)

(* ---------------------------------- float64 ---------------------------- *)

\* A finite float64 f is the whole number f * FloatScale.
FloatScale == 2^8

NaN == 0 - 2^30

PosInf == 2^30

IsFinite(f) == f # NaN /\ f # PosInf

\* a < b on float64: every comparison with NaN is false
FLt(a, b) == a # NaN /\ b # NaN /\ a < b

\* a > b on float64
FGt(a, b) == a # NaN /\ b # NaN /\ a > b

\* n / d rounded to the nearest whole number, ties to even (n >= 0, d > 0)
RoundHalfEven(n, d) ==
  LET q == n \div d
      r == n % d
  IN  IF 2 * r > d \/ (2 * r = d /\ q % 2 = 1) THEN q + 1 ELSE q

\* fmt's %.<prec>f of a float64
FormatFloat(f, prec) ==
  IF f = NaN THEN << "N", "a", "N" >>
  ELSE IF f = PosInf THEN << "+", "I", "n", "f" >>
  ELSE LET a == IF f < 0 THEN 0 - f ELSE f
           q == RoundHalfEven(a * Pow10(prec), FloatScale)
           body == NatToStr(q \div Pow10(prec)) \o << "." >>
                     \o PadZero(NatToStr(q % Pow10(prec)), prec)
       IN  IF f < 0 THEN << "-" >> \o body ELSE body

\* fmt's %t
FormatBool(b) ==
  IF b THEN << "t", "r", "u", "e" >> ELSE << "f", "a", "l", "s", "e" >>

IsNumChar(c) == IsDigit(c) \/ c = "."

\* regexp `[\d.]+` FindString: the leftmost, longest run of digits and dots
RECURSIVE NumRun(_)
NumRun(s) == IF s # <<>> /\ IsNumChar(Head(s)) THEN << Head(s) >> \o NumRun(Tail(s)) ELSE <<>>

RECURSIVE FindNumeric(_)
FindNumeric(s) ==
  IF s = <<>> THEN <<>>
  ELSE IF IsNumChar(Head(s)) THEN NumRun(s)
  ELSE FindNumeric(Tail(s))

RECURSIVE DigitsToNat(_)
DigitsToNat(s) ==
  IF s = <<>> THEN 0 ELSE 10 * DigitsToNat(SubSeq(s, 1, Len(s) - 1)) + DigitVal(s[Len(s)])

\* strconv.ParseFloat on a run of digits and dots: <<ok, value>>. One dot at
\* most and one digit at least, else a syntax error.
ParseFloat(m) ==
  LET dots == { i \in 1..Len(m) : m[i] = "." }
  IN  IF Cardinality(dots) > 1 \/ Len(m) - Cardinality(dots) = 0
      THEN << FALSE, 0 >>
      ELSE LET ds   == RemoveChar(m, ".")
               frac == IF dots = {} THEN 0 ELSE Len(m) - (CHOOSE i \in dots : TRUE)
           IN  << TRUE, RoundHalfEven(DigitsToNat(ds) * FloatScale, Pow10(frac)) >>

\* utils.ParsePrice
ParsePrice(priceStr) ==
  IF priceStr = <<>> THEN 0
  ELSE LET cleanPrice == TrimSpace(RemoveChar(RemoveChar(priceStr, "$"), ","))
           match      == FindNumeric(cleanPrice)
       IN  IF match = <<>> THEN 0
           ELSE IF ParseFloat(match)[1] THEN ParseFloat(match)[2] ELSE 0

\* utils.ParseRating
ParseRating(ratingStr) ==
  IF ratingStr = <<>> THEN 0
  ELSE LET match == FindNumeric(ratingStr)
       IN  IF match = <<>> THEN 0
           ELSE IF ParseFloat(match)[1] THEN ParseFloat(match)[2] ELSE 0

(* -------------------------------- data model --------------------------- *)

\* models.Filters
MkFilters(minPrice, maxPrice, inStock, minRating, source) ==
  [ MinPrice |-> minPrice, MaxPrice |-> maxPrice, InStock |-> inStock,
    MinRating |-> minRating, Source |-> source ]

\* models.Sort
MkSort(field, order) == [ Field |-> field, Order |-> order ]

\* models.SearchParams
MkParams(query, country, page, limit, filters, sort) ==
  [ Query |-> query, Country |-> country, Page |-> page, Limit |-> limit,
    Filters |-> filters, Sort |-> sort ]

\* models.Product
MkProduct(id, name, price, rating, source, inStock, scrapedAt) ==
  [ ID |-> id, Name |-> name, Price |-> price, Currency |-> << "U", "S", "D" >>,
    URL |-> << "u" >> \o id, Image |-> << "i" >> \o id, Rating |-> rating,
    Reviews |-> <<>>, Source |-> source, ScrapedAt |-> scrapedAt,
    InStock |-> inStock, Description |-> <<>>, PriceValue |-> 0 ]

(* ------------------------------- the cache key ------------------------- *)

\* RedisCache.GenerateSearchKey
GenerateSearchKey(params) ==
  LET base ==
        << "s", "e", "a", "r", "c", "h", ":" >> \o params.Query \o << ":" >>
          \o params.Country \o << ":", "p" >> \o FormatInt(params.Page)
          \o << ":", "l" >> \o FormatInt(params.Limit)
      f == Val(params.Filters)
      filters ==
        IF IsNil(params.Filters) THEN <<>>
        ELSE (IF FGt(f.MinPrice, 0)
              THEN << ":", "m", "i", "n", "p" >> \o FormatFloat(f.MinPrice, 2) ELSE <<>>)
          \o (IF FGt(f.MaxPrice, 0)
              THEN << ":", "m", "a", "x", "p" >> \o FormatFloat(f.MaxPrice, 2) ELSE <<>>)
          \o (IF f.Source # <<>>
              THEN << ":", "s", "r", "c" >> \o f.Source ELSE <<>>)
          \o (IF ~IsNil(f.InStock)
              THEN << ":", "s", "t", "o", "c", "k" >> \o FormatBool(Val(f.InStock)) ELSE <<>>)
          \o (IF FGt(f.MinRating, 0)
              THEN << ":", "r", "a", "t", "i", "n", "g" >> \o FormatFloat(f.MinRating, 1)
              ELSE <<>>)
      sort ==
        IF IsNil(params.Sort) THEN <<>>
        ELSE << ":", "s", "o", "r", "t" >> \o Val(params.Sort).Field
               \o << ":" >> \o Val(params.Sort).Order
  IN  base \o filters \o sort

(* --------------------------------- validation -------------------------- *)

ValidFields == { << "p", "r", "i", "c", "e" >>, << "r", "a", "t", "i", "n", "g" >>,
                 << "n", "a", "m", "e" >> }

ValidOrders == { << "a", "s", "c" >>, << "d", "e", "s", "c" >> }

DefaultLimit == 10

MaxLimit == 100

MaxRatingValue == 5

\* The page and limit defaults of validateSearchParams
CoercePage(page) == IF I64Le(page, I64Zero) THEN I64One ELSE page

\* Seeded fault: the upper clamp of the limit is gone
CoerceLimitNoClamp(limit) == IF I64Le(limit, I64Zero) THEN I64(DefaultLimit) ELSE limit

CoerceLimit(limit) ==
  IF I64Le(limit, I64Zero) THEN I64(DefaultLimit)
  ELSE IF I64Lt(I64(MaxLimit), limit) THEN I64(MaxLimit)
  ELSE limit

\* The query check of validateSearchParams: TRUE when the query is rejected
QueryRejected(query) == query = <<>>

\* Seeded fault: the sort is not validated
SortNeverRejected(sort) == FALSE

FiltersRejected(filters) ==
  /\ ~IsNil(filters)
  /\ LET f == Val(filters)
     IN  \/ FLt(f.MinPrice, 0)
         \/ (FGt(f.MaxPrice, 0) /\ FLt(f.MaxPrice, f.MinPrice))
         \/ FLt(f.MinRating, 0)
         \/ FGt(f.MinRating, MaxRatingValue * FloatScale)

SortRejected(sort) ==
  /\ ~IsNil(sort)
  /\ \/ Val(sort).Field \notin ValidFields
     \/ Val(sort).Order \notin ValidOrders

\* SearchService.validateSearchParams: <<error, params as left by the call>>
validateSearchParams(params) ==
  IF QueryRejected(params.Query) THEN << TRUE, params >>
  ELSE LET p == [params EXCEPT !.Page = CoercePage(@), !.Limit = CoerceLimit(@)]
       IN  << FiltersRejected(p.Filters) \/ SortRejected(p.Sort), p >>

(* ------------------------------- the pipeline -------------------------- *)

\* SearchService.processProducts on one product
Normalize(product) == [product EXCEPT !.PriceValue = ParsePrice(product.Price)]

\* SearchService.processProducts
processProducts(products) == [i \in 1..Len(products) |-> Normalize(products[i])]

\* The body of the loop of applyFilters: TRUE when the product is kept
\* Seeded fault: the source filter matches in one direction only
RetainedOneWay(product, f) ==
  /\ ~(FGt(f.MinPrice, 0) /\ FLt(product.PriceValue, f.MinPrice))
  /\ ~(FGt(f.MaxPrice, 0) /\ FGt(product.PriceValue, f.MaxPrice))
  /\ ~(~IsNil(f.InStock) /\ product.InStock # Val(f.InStock))
  /\ ~(FGt(f.MinRating, 0) /\ FLt(ParseRating(product.Rating), f.MinRating))
  /\ ~(f.Source # <<>> /\ ~Contains(ToLower(product.Source), ToLower(f.Source)))

Retained(product, f) ==
  /\ ~(FGt(f.MinPrice, 0) /\ FLt(product.PriceValue, f.MinPrice))
  /\ ~(FGt(f.MaxPrice, 0) /\ FGt(product.PriceValue, f.MaxPrice))
  /\ ~(~IsNil(f.InStock) /\ product.InStock # Val(f.InStock))
  /\ ~(FGt(f.MinRating, 0) /\ FLt(ParseRating(product.Rating), f.MinRating))
  /\ ~(f.Source # <<>>
        /\ ~(\/ Contains(ToLower(product.Source), ToLower(f.Source))
             \/ Contains(ToLower(f.Source), ToLower(product.Source))))

\* SearchService.applyFilters on a non-nil slice: a nil-able slice. With no
\* filter the input slice itself; else `filtered`, which stays nil until the
\* first append.
applyFilters(products, filters) ==
  IF IsNil(filters) THEN Some(products)
  ELSE LET kept == SelectSeq(products, LAMBDA x : Retained(x, Val(filters)))
       IN  IF kept = <<>> THEN Nil ELSE Some(kept)

\* The characters of the model in byte order
ByteOrder ==
  << "\t", "\n", "\r", " ", "$", ",", "-", "." >> \o Digits \o << ":" >>
     \o UpperLetters \o LowerLetters

ByteRank(c) == CHOOSE i \in 1..Len(ByteOrder) : ByteOrder[i] = c

\* a < b on strings: bytewise
RECURSIVE StrLess(_, _)
StrLess(a, b) ==
  IF b = <<>> THEN FALSE
  ELSE IF a = <<>> THEN TRUE
  ELSE IF Head(a) # Head(b) THEN ByteRank(Head(a)) < ByteRank(Head(b))
  ELSE StrLess(Tail(a), Tail(b))

\* Seeded fault: the order is ignored and every sort is ascending
SortLessAscending(x, y, sortParams) ==
  CASE sortParams.Field = << "p", "r", "i", "c", "e" >> -> FLt(x.PriceValue, y.PriceValue)
    [] sortParams.Field = << "r", "a", "t", "i", "n", "g" >> ->
         FLt(ParseRating(x.Rating), ParseRating(y.Rating))
    [] sortParams.Field = << "n", "a", "m", "e" >> -> StrLess(x.Name, y.Name)
    [] OTHER -> FALSE

\* The less function applySorting hands to sort.Slice
SortLess(x, y, sortParams) ==
  LET desc == sortParams.Order = << "d", "e", "s", "c" >>
  IN  CASE sortParams.Field = << "p", "r", "i", "c", "e" >> ->
             IF desc THEN FGt(x.PriceValue, y.PriceValue)
             ELSE FLt(x.PriceValue, y.PriceValue)
        [] sortParams.Field = << "r", "a", "t", "i", "n", "g" >> ->
             IF desc THEN FGt(ParseRating(x.Rating), ParseRating(y.Rating))
             ELSE FLt(ParseRating(x.Rating), ParseRating(y.Rating))
        [] sortParams.Field = << "n", "a", "m", "e" >> ->
             IF desc THEN StrLess(y.Name, x.Name) ELSE StrLess(x.Name, y.Name)
        [] OTHER -> FALSE

Perms(n) == { f \in [1..n -> 1..n] : \A i, j \in 1..n : i # j => f[i] # f[j] }

\* sort.Slice: the orders it may leave the slice in. The library promises a
\* sorted permutation and no stability, so every permutation that is sorted
\* by less.
SortSlice(products, sortParams) ==
  { [i \in 1..Len(products) |-> products[f[i]]] : f \in
      { g \in Perms(Len(products)) :
          \A i, j \in 1..Len(products) :
            i < j => ~SortLess(products[g[j]], products[g[i]], sortParams) } }

\* SearchService.applySorting: the set of slices it may leave
applySorting(products, sortParams) ==
  IF IsNil(sortParams) THEN { products } ELSE SortSlice(products, Val(sortParams))

\* int(math.Ceil(float64(total) / float64(limit))) for 1 <= limit <= 100
CeilDiv(total, limit) == (total + limit - 1) \div limit

\* SearchService.applyPagination on a slice of `total` products:
\* [panic, products, totalPages]. The slice expression products[start:end]
\* panics when start is negative.
applyPagination(products, page, limit) ==
  LET total      == Len(products)
      totalPages == CeilDiv(total, I64ToNat(limit))
      start      == I64Mul(I64Sub(page, I64One), limit)
      end0       == I64Add(start, limit)
      end        == IF I64Lt(I64(total), end0) THEN I64(total) ELSE end0
  IN  IF I64Le(I64(total), start)
      THEN [ panic |-> FALSE, products |-> <<>>, totalPages |-> totalPages ]
      ELSE IF I64IsNeg(start) \/ I64Lt(end, start)
      THEN [ panic |-> TRUE, products |-> <<>>, totalPages |-> totalPages ]
      ELSE [ panic |-> FALSE,
             products |-> SubSeq(products, I64ToNat(start) + 1, I64ToNat(end)),
             totalPages |-> totalPages ]

(* --------------------------------- responses --------------------------- *)

StrAmazonEbay == << "A", "m", "a", "z", "o", "n", ",", " ", "e", "B", "a", "y" >>

StrIN == << "I", "N" >>

StrUS == << "U", "S" >>

\* The source list of SearchProducts
SourceInfo(country) ==
  IF country = StrIN
  THEN StrAmazonEbay \o << ",", " ", "F", "l", "i", "p", "k", "a", "r", "t" >>
  ELSE StrAmazonEbay

\* duration.String(): the elapsed time is not modelled, only the suffix
DurationLive == << "t" >>

DurationCached == << "t", " ", "(", "c", "a", "c", "h", "e", "d", ")" >>

\* The models.SearchResponse SearchProducts builds
MkResponse(params, country, paginated, total, totalPages) ==
  [ Query |-> params.Query, Products |-> Some(paginated), Total |-> total,
    Page |-> params.Page, Limit |-> params.Limit, TotalPages |-> totalPages,
    Source |-> SourceInfo(country), Filters |-> params.Filters,
    Sort |-> params.Sort, Duration |-> DurationLive ]

(* ------------------------------ encoding/json -------------------------- *)

\* json.Marshal of a models.Product: the fields present in the object
ProductDoc(p) ==
  LET present == { "id", "name", "price", "currency", "url", "image", "source",
                   "scraped_at", "in_stock" }
                 \cup (IF p.Rating # <<>> THEN { "rating" } ELSE {})
                 \cup (IF p.Reviews # <<>> THEN { "reviews" } ELSE {})
                 \cup (IF p.Description # <<>> THEN { "description" } ELSE {})
                 \cup (IF p.PriceValue # 0 THEN { "price_value" } ELSE {})
  IN  [ k \in present |->
          CASE k = "id" -> p.ID [] k = "name" -> p.Name [] k = "price" -> p.Price
            [] k = "currency" -> p.Currency [] k = "url" -> p.URL
            [] k = "image" -> p.Image [] k = "rating" -> p.Rating
            [] k = "reviews" -> p.Reviews [] k = "source" -> p.Source
            [] k = "scraped_at" -> p.ScrapedAt [] k = "in_stock" -> p.InStock
            [] k = "description" -> p.Description
            [] k = "price_value" -> p.PriceValue ]

\* json.Marshal of a models.Filters
FiltersDoc(f) ==
  LET present == (IF f.MinPrice # 0 THEN { "min_price" } ELSE {})
                 \cup (IF f.MaxPrice # 0 THEN { "max_price" } ELSE {})
                 \cup (IF ~IsNil(f.InStock) THEN { "in_stock" } ELSE {})
                 \cup (IF f.MinRating # 0 THEN { "min_rating" } ELSE {})
                 \cup (IF f.Source # <<>> THEN { "source" } ELSE {})
  IN  [ k \in present |->
          CASE k = "min_price" -> f.MinPrice [] k = "max_price" -> f.MaxPrice
            [] k = "in_stock" -> Val(f.InStock) [] k = "min_rating" -> f.MinRating
            [] k = "source" -> f.Source ]

\* json.Marshal refuses NaN and the infinities
Unsupported(response) ==
  \/ /\ ~IsNil(response.Filters)
     /\ \E v \in { Val(response.Filters).MinPrice, Val(response.Filters).MaxPrice,
                   Val(response.Filters).MinRating } : ~IsFinite(v)
  \/ /\ ~IsNil(response.Products)
     /\ \E i \in 1..Len(Val(response.Products)) :
          ~IsFinite(Val(response.Products)[i].PriceValue)

\* json.Marshal of a *models.SearchResponse: <<ok, object>>
Marshal(response) ==
  IF Unsupported(response) THEN << FALSE, <<>> >>
  ELSE
    LET present == { "query", "products", "total", "page", "limit", "total_pages",
                     "source", "duration" }
                   \cup (IF ~IsNil(response.Filters) THEN { "filters" } ELSE {})
                   \cup (IF ~IsNil(response.Sort) THEN { "sort" } ELSE {})
        ps == response.Products
    IN  << TRUE,
           [ k \in present |->
               CASE k = "query" -> response.Query
                 [] k = "products" ->
                      IF IsNil(ps) THEN Nil
                      ELSE Some([i \in 1..Len(Val(ps)) |-> ProductDoc(Val(ps)[i])])
                 [] k = "total" -> response.Total
                 [] k = "page" -> response.Page
                 [] k = "limit" -> response.Limit
                 [] k = "total_pages" -> response.TotalPages
                 [] k = "source" -> response.Source
                 [] k = "filters" -> FiltersDoc(Val(response.Filters))
                 [] k = "sort" -> Val(response.Sort)
                 [] k = "duration" -> response.Duration ] >>

\* The value of field k of object d, or zero when the object has no such field
Field(d, k, zero) == IF k \in DOMAIN d THEN d[k] ELSE zero

\* json.Unmarshal into a models.Product
ProductOf(d) ==
  [ ID |-> Field(d, "id", <<>>), Name |-> Field(d, "name", <<>>),
    Price |-> Field(d, "price", <<>>), Currency |-> Field(d, "currency", <<>>),
    URL |-> Field(d, "url", <<>>), Image |-> Field(d, "image", <<>>),
    Rating |-> Field(d, "rating", <<>>), Reviews |-> Field(d, "reviews", <<>>),
    Source |-> Field(d, "source", <<>>), ScrapedAt |-> Field(d, "scraped_at", 0),
    InStock |-> Field(d, "in_stock", FALSE),
    Description |-> Field(d, "description", <<>>),
    PriceValue |-> Field(d, "price_value", 0) ]

\* json.Unmarshal into a models.Filters
FiltersOf(d) ==
  MkFilters(Field(d, "min_price", 0), Field(d, "max_price", 0),
            IF "in_stock" \in DOMAIN d THEN Some(d["in_stock"]) ELSE Nil,
            Field(d, "min_rating", 0), Field(d, "source", <<>>))

\* json.Unmarshal into a models.SearchResponse
Unmarshal(d) ==
  [ Query |-> Field(d, "query", <<>>),
    Products |->
      IF "products" \notin DOMAIN d \/ IsNil(d["products"]) THEN Nil
      ELSE Some([i \in 1..Len(Val(d["products"])) |-> ProductOf(Val(d["products"])[i])]),
    Total |-> Field(d, "total", 0), Page |-> Field(d, "page", I64Zero),
    Limit |-> Field(d, "limit", I64Zero), TotalPages |-> Field(d, "total_pages", 0),
    Source |-> Field(d, "source", <<>>),
    Filters |-> IF "filters" \in DOMAIN d THEN Some(FiltersOf(d["filters"])) ELSE Nil,
    Sort |-> IF "sort" \in DOMAIN d THEN Some(d["sort"]) ELSE Nil,
    Duration |-> Field(d, "duration", <<>>) ]

(* -------------------------------- the scrapers -------------------------- *)

Retrievers == { "Amazon", "eBay", "Flipkart", "Walmart", "Target", "BestBuy" }

\* The goroutine blocks of scrapeAllSources, in program order
RetrieverOrder == << "Amazon", "eBay", "Flipkart", "Walmart", "Target", "BestBuy" >>

\* Seeded fault: the region conditions around the goroutine blocks are gone
ApplicableEverywhere(r, country) == TRUE

\* The condition around each goroutine block of scrapeAllSources
Applicable(r, country) ==
  CASE r \in { "Amazon", "eBay" } -> TRUE
    [] r = "Flipkart" -> ToUpper(country) = StrIN
    [] r \in { "Walmart", "Target", "BestBuy" } -> ToUpper(country) = StrUS

\* Listings the scrapers may find
ListingA1 ==
  MkProduct(<< "a", "1" >>, << "T", "v" >>, << "$", "1", ",", "2", "3", "4", ".", "5", "0" >>,
            << "4", ".", "5", " ", "o", "f", " ", "5" >>,
            << "A", "m", "a", "z", "o", "n", " ", "U", "K" >>, TRUE, 1)

ListingA2 ==
  MkProduct(<< "a", "2" >>, << "P", "c" >>, << "$", "2", ".", "0", "0" >>, <<>>,
            << "A", "m", "a", "z", "o", "n", " ", "U", "K" >>, TRUE, 2)

ListingE1 ==
  MkProduct(<< "e", "1" >>, << "T", "v" >>, << "$", "2", ".", "0", "0" >>,
            << "3", ".", "0" >>, << "e", "B", "a", "y" >>, FALSE, 3)

ListingF1 ==
  MkProduct(<< "f", "1" >>, << "A", "c" >>, << "n", "o", " ", "p", "r", "i", "c", "e" >>,
            <<>>, << "F", "l", "i", "p", "k", "a", "r", "t" >>, TRUE, 4)

ListingW1 ==
  MkProduct(<< "w", "1" >>, << "T", "v" >>, << "$", "9", ".", "7", "5" >>, <<>>,
            << "W", "a", "l", "m", "a", "r", "t" >>, TRUE, 5)

ListingB1 ==
  MkProduct(<< "b", "1" >>, << "P", "c" >>, << "$", "0", ".", "5", "0" >>, <<>>,
            << "B", "e", "s", "t", " ", "B", "u", "y" >>, TRUE, 6)

\* What one call of a scraper's Search does: it panics, or it returns a
\* slice (nil, empty or not) and an error (set or nil).
Returned(products, err) == [ panic |-> FALSE, products |-> products, err |-> err ]

Panicked == [ panic |-> TRUE, products |-> Nil, err |-> FALSE ]

\* The scrapers are external: each call picks one of these outcomes.
Outcomes(r) ==
  CASE r = "Amazon" ->
         { Returned(Some(<< ListingA1, ListingA2 >>), FALSE),
           Returned(Some(<< ListingA2 >>), FALSE), Panicked }
    [] r = "eBay" ->
         { Returned(Some(<< ListingE1 >>), FALSE), Returned(Nil, TRUE),
           Returned(Some(<<>>), TRUE) }
    [] r = "Flipkart" -> { Returned(Some(<< ListingF1 >>), FALSE), Panicked }
    [] r = "Walmart" -> { Returned(Some(<< ListingW1 >>), FALSE), Returned(Nil, TRUE) }
    [] r = "Target" -> { Returned(Some(<<>>), FALSE), Panicked }
    [] r = "BestBuy" -> { Returned(Some(<< ListingB1 >>), FALSE), Panicked }

(* ---------------------------------- the state -------------------------- *)

VARIABLES
  inputs,            \* the requests the callers send
  remaining,         \* the number of calls still to come
  cacheAvail,        \* s.cache != nil && s.cache.IsAvailable()
  store,             \* the redis database: key -> stored value
  pc,                \* the position of the SearchProducts call
  request,           \* the argument of the call
  params,            \* params, as defaulted and validated in place
  cacheKey,          \* cacheKey
  block,             \* the next goroutine block of scrapeAllSources
  task,              \* the goroutine of each scraper
  wg,                \* wg: the wait group's counter
  mu,                \* mu: free, or the goroutine holding it
  errorMu,           \* errorMu: free, or the goroutine holding it
  allProducts,       \* allProducts
  scraperErrors,     \* scraperErrors: the scrapers whose error was recorded
  filteredProducts,  \* filteredProducts
  response,          \* response, nil until it is built
  result,            \* what the call gave its caller
  trace,             \* the stages the call has run
  calls,             \* the Search calls of each scraper in this call
  cacheGets,         \* the GetSearchResults calls in this call
  cacheSets,         \* the SetSearchResults calls in this call
  faults,            \* whether a cache operation of this call failed
  prev,              \* the call before this one: its request and result
  evicted,           \* whether a key expired since the call before this one
  keyArgs,           \* two requests whose cache keys are compared
  keyStage,          \* how far the two requests have come
  keyOut,            \* the cache keys of the two requests
  fn,                \* the function called on its own, if one is
  fnArgs,            \* its arguments
  fnOut,             \* what it returned, nil until it has
  rateLimiters,      \* rateLimiters: client IP -> limiter
  rateMutex,         \* rateMutex: its readers and its writer
  buckets,           \* the limiters created so far, each with its tokens
  conn,              \* the requests in the rate limit middleware
  arrivals,          \* the requests that have arrived
  session,           \* the SearchProducts calls that run at the same time
  collector          \* the OnHTML callbacks on the Amazon scraper's collector

vars ==
  << inputs, remaining, cacheAvail, store, pc, request, params, cacheKey, block,
     task, wg, mu, errorMu, allProducts, scraperErrors, filteredProducts,
     response, result, trace, calls, cacheGets, cacheSets, faults, prev, evicted,
     keyArgs, keyStage, keyOut, fn, fnArgs, fnOut, rateLimiters, rateMutex,
     buckets, conn, arrivals, session, collector >>

keyVars == << keyArgs, keyStage, keyOut >>

fnVars == << fn, fnArgs, fnOut >>

limVars == << rateLimiters, rateMutex, buckets, conn, arrivals >>

concVars == << session, collector >>

Free == "free"

IdleTask == [ pc |-> "idle", out |-> Panicked ]

NoResult == [ kind |-> "none", response |-> Nil ]

Elems(slice) == IF IsNil(slice) THEN <<>> ELSE Val(slice)

\* Seeded fault: an assignment in place of the append, which drops what the
\* other goroutines added
Append2Overwrite(dst, src) == Some(src)

\* append(dst, src...): a nil dst stays nil when nothing is appended
Append2(dst, src) ==
  IF IsNil(dst) /\ src = <<>> THEN Nil ELSE Some(Elems(dst) \o src)


(* ------------------------------ SearchProducts ------------------------- *)

\* Seeded fault: no default for the country
DefaultCountryNone(req) == req

\* "Set default country to IN (India) if not specified"
DefaultCountry(req) == IF req.Country = <<>> THEN [req EXCEPT !.Country = StrIN] ELSE req

\* A caller invokes SearchProducts(req): the country default
Call(req) ==
  /\ pc \in { "idle", "returned", "panicked" }
  /\ remaining > 0
  /\ remaining' = remaining - 1
  /\ prev' = IF pc = "idle" THEN Nil
             ELSE Some([ request |-> request, result |-> result, faults |-> faults,
                         calls |-> calls, evicted |-> evicted ])
  /\ evicted' = FALSE
  /\ request' = req
  /\ params' = DefaultCountry(req)
  /\ pc' = "validate"
  /\ cacheKey' = <<>>
  /\ block' = 1
  /\ task' = [r \in Retrievers |-> IdleTask]
  /\ wg' = 0
  /\ mu' = Free
  /\ errorMu' = Free
  /\ allProducts' = Nil
  /\ scraperErrors' = <<>>
  /\ filteredProducts' = Nil
  /\ response' = Nil
  /\ result' = NoResult
  /\ trace' = <<>>
  /\ calls' = [r \in Retrievers |-> 0]
  /\ cacheGets' = 0
  /\ cacheSets' = 0
  /\ faults' = FALSE
  /\ UNCHANGED << keyVars, fnVars, limVars, concVars, inputs, cacheAvail, store >>

\* validateSearchParams and the return of its error
Validate ==
  /\ pc = "validate"
  /\ LET v == validateSearchParams(params)
     IN  /\ params' = v[2]
         /\ IF v[1]
            THEN /\ result' = [ kind |-> "error", response |-> Nil ]
                 /\ pc' = "returned"
            ELSE /\ result' = result
                 /\ pc' = "lookup"
  /\ trace' = Append(trace, "Validate")
  /\ UNCHANGED << keyVars, fnVars, limVars, concVars, inputs, remaining, cacheAvail, store, request, cacheKey, block,
                  task, wg, mu, errorMu, allProducts, scraperErrors,
                  filteredProducts, response, calls, cacheGets, cacheSets, faults,
                  prev, evicted >>

\* Seeded fault: the guard does not ask IsAvailable
UsableRegardless == TRUE

\* The cache guard of SearchProducts
CacheUsable == cacheAvail

\* "Try cache first": under the guard, the key and GetSearchResults with each
\* of its outcomes
CacheLookup ==
  /\ pc = "lookup"
  /\ trace' = Append(trace, "CacheLookup")
  /\ IF ~CacheUsable
     THEN /\ pc' = "aggregate"
          /\ UNCHANGED << cacheKey, result, cacheGets, faults >>
     ELSE LET key == GenerateSearchKey(params)
          IN  /\ cacheKey' = key
              /\ cacheGets' = cacheGets + 1
              /\ \/ \* the value is there and decodes: a hit
                    /\ key \in DOMAIN store
                    /\ result' =
                         [ kind |-> "ok",
                           response |->
                             Some([Unmarshal(store[key]) EXCEPT !.Duration = DurationCached]) ]
                    /\ pc' = "returned"
                    /\ faults' = faults
                 \/ \* redis.Nil: a miss
                    /\ key \notin DOMAIN store
                    /\ pc' = "aggregate"
                    /\ UNCHANGED << result, faults >>
                 \/ \* the backend fails
                    /\ pc' = "aggregate"
                    /\ faults' = TRUE
                    /\ result' = result
                 \/ \* the value is there and does not decode
                    /\ key \in DOMAIN store
                    /\ pc' = "aggregate"
                    /\ faults' = TRUE
                    /\ result' = result
  /\ UNCHANGED << keyVars, fnVars, limVars, concVars, inputs, remaining, cacheAvail, store, request, params, block, task,
                  wg, mu, errorMu, allProducts, scraperErrors, filteredProducts,
                  response, calls, cacheSets, prev, evicted >>

\* The local `country` of SearchProducts
Country == ToUpper(params.Country)

(* ------------------------------ scrapeAllSources ------------------------ *)

\* The first goroutine block at or after block b whose condition holds
RECURSIVE NextBlock(_, _)
NextBlock(b, country) ==
  IF b > Len(RetrieverOrder) \/ Applicable(RetrieverOrder[b], country) THEN b
  ELSE NextBlock(b + 1, country)

\* Seeded fault: the block is called without `go`, so it starts only when the
\* blocks before it have run to their end
SpawnChained ==
  /\ pc = "aggregate"
  /\ block <= Len(RetrieverOrder)
  /\ \A r \in Retrievers : task[r].pc \in { "idle", "done" }
  /\ wg' = wg + 1
  /\ task' = [task EXCEPT ![RetrieverOrder[block]] = [ pc |-> "search", out |-> Panicked ]]
  /\ block' = NextBlock(block + 1, Country)
  /\ trace' = IF block = 1 THEN Append(trace, "Aggregate") ELSE trace
  /\ UNCHANGED << keyVars, fnVars, limVars, concVars, inputs, remaining, cacheAvail, store, pc, request, params, cacheKey,
                  mu, errorMu, allProducts, scraperErrors, filteredProducts, response,
                  result, calls, cacheGets, cacheSets, faults, prev, evicted >>

\* One goroutine block whose condition holds: wg.Add(1) and the go statement
Spawn ==
  /\ pc = "aggregate"
  /\ block <= Len(RetrieverOrder)
  /\ wg' = wg + 1
  /\ task' = [task EXCEPT ![RetrieverOrder[block]] = [ pc |-> "search", out |-> Panicked ]]
  /\ block' = NextBlock(block + 1, Country)
  /\ trace' = IF block = 1 THEN Append(trace, "Aggregate") ELSE trace
  /\ UNCHANGED << keyVars, fnVars, limVars, concVars, inputs, remaining, cacheAvail, store, pc, request, params, cacheKey,
                  mu, errorMu, allProducts, scraperErrors, filteredProducts, response,
                  result, calls, cacheGets, cacheSets, faults, prev, evicted >>

\* The goroutine calls Search; on a panic the deferred recover runs
TaskSearch(r) ==
  /\ task[r].pc = "search"
  /\ calls' = [calls EXCEPT ![r] = @ + 1]
  /\ \E o \in Outcomes(r) :
       task' = [task EXCEPT ![r] =
                  [ pc  |-> IF o.panic THEN "exit"
                            ELSE IF o.err THEN "addError" ELSE "addProducts",
                    out |-> o ]]
  /\ UNCHANGED << keyVars, fnVars, limVars, concVars, inputs, remaining, cacheAvail, store, pc, request, params, cacheKey,
                  block, wg, mu, errorMu, allProducts, scraperErrors,
                  filteredProducts, response, result, trace, cacheGets, cacheSets,
                  faults, prev, evicted >>

\* addError: errorMu.Lock()
TaskErrLock(r) ==
  /\ task[r].pc = "addError"
  /\ errorMu = Free
  /\ errorMu' = r
  /\ task' = [task EXCEPT ![r].pc = "errLocked"]
  /\ UNCHANGED << keyVars, fnVars, limVars, concVars, inputs, remaining, cacheAvail, store, pc, request, params, cacheKey,
                  block, wg, mu, allProducts, scraperErrors, filteredProducts,
                  response, result, trace, calls, cacheGets, cacheSets, faults, prev,
                  evicted >>

\* addError: the append and errorMu.Unlock()
TaskErrAppend(r) ==
  /\ task[r].pc = "errLocked"
  /\ scraperErrors' = Append(scraperErrors, r)
  /\ errorMu' = Free
  /\ task' = [task EXCEPT ![r].pc = "addProducts"]
  /\ UNCHANGED << keyVars, fnVars, limVars, concVars, inputs, remaining, cacheAvail, store, pc, request, params, cacheKey,
                  block, wg, mu, allProducts, filteredProducts, response, result,
                  trace, calls, cacheGets, cacheSets, faults, prev, evicted >>

\* Seeded fault: addProducts appends without waiting for mu
TaskProdLockNoWait(r) ==
  /\ task[r].pc = "addProducts"
  /\ mu' = r
  /\ task' = [task EXCEPT ![r].pc = "prodLocked"]
  /\ UNCHANGED << keyVars, fnVars, limVars, concVars, inputs, remaining, cacheAvail, store, pc, request, params, cacheKey,
                  block, wg, errorMu, allProducts, scraperErrors, filteredProducts,
                  response, result, trace, calls, cacheGets, cacheSets, faults, prev,
                  evicted >>

\* addProducts: mu.Lock()
TaskProdLock(r) ==
  /\ task[r].pc = "addProducts"
  /\ mu = Free
  /\ mu' = r
  /\ task' = [task EXCEPT ![r].pc = "prodLocked"]
  /\ UNCHANGED << keyVars, fnVars, limVars, concVars, inputs, remaining, cacheAvail, store, pc, request, params, cacheKey,
                  block, wg, errorMu, allProducts, scraperErrors, filteredProducts,
                  response, result, trace, calls, cacheGets, cacheSets, faults, prev,
                  evicted >>

\* What a goroutine hands to addProducts: a nil result made empty
Normalized(out) == IF IsNil(out.products) THEN <<>> ELSE Val(out.products)

\* addProducts: the append and mu.Unlock()
TaskProdAppend(r) ==
  /\ task[r].pc = "prodLocked"
  /\ allProducts' = Append2(allProducts, Normalized(task[r].out))
  /\ mu' = Free
  /\ task' = [task EXCEPT ![r].pc = "exit"]
  /\ UNCHANGED << keyVars, fnVars, limVars, concVars, inputs, remaining, cacheAvail, store, pc, request, params, cacheKey,
                  block, wg, errorMu, scraperErrors, filteredProducts, response,
                  result, trace, calls, cacheGets, cacheSets, faults, prev, evicted >>

\* The deferred calls of the goroutine: recover, then wg.Done()
TaskDone(r) ==
  /\ task[r].pc = "exit"
  /\ wg' = wg - 1
  /\ task' = [task EXCEPT ![r].pc = "done"]
  /\ UNCHANGED << keyVars, fnVars, limVars, concVars, inputs, remaining, cacheAvail, store, pc, request, params, cacheKey,
                  block, mu, errorMu, allProducts, scraperErrors, filteredProducts,
                  response, result, trace, calls, cacheGets, cacheSets, faults, prev,
                  evicted >>

\* Seeded fault: scrapeAllSources goes on without wg.Wait()
WaitReturnsAtOnce == TRUE

\* wg.Wait() blocks until the counter of the wait group is zero
WaitReturns == wg = 0

\* wg.Wait() returns, and the nil aggregate is made an empty slice
Wait ==
  /\ pc = "aggregate"
  /\ block > Len(RetrieverOrder)
  /\ WaitReturns
  /\ allProducts' = Some(Elems(allProducts))
  /\ pc' = "normalize"
  /\ UNCHANGED << keyVars, fnVars, limVars, concVars, inputs, remaining, cacheAvail, store, request, params, cacheKey,
                  block, task, wg, mu, errorMu, scraperErrors, filteredProducts,
                  response, result, trace, calls, cacheGets, cacheSets, faults, prev,
                  evicted >>

(* ------------------------- the stages after the miss -------------------- *)

\* Seeded fault: applySorting is called before applyFilters
FollowingSortFirst(stage) ==
  CASE stage = "normalize" -> "sort"
    [] stage = "sort" -> "filter"
    [] stage = "filter" -> "paginate"
    [] stage = "paginate" -> "store"
    [] stage = "store" -> "returned"

\* The pipeline of SearchProducts after scrapeAllSources returns: the
\* statement that follows each one
Following(stage) ==
  CASE stage = "normalize" -> "filter"
    [] stage = "filter" -> "sort"
    [] stage = "sort" -> "paginate"
    [] stage = "paginate" -> "store"
    [] stage = "store" -> "returned"

\* processProducts
NormalizeStage ==
  /\ pc = "normalize"
  /\ allProducts' = Some(processProducts(Val(allProducts)))
  /\ pc' = Following("normalize")
  /\ trace' = Append(trace, "Normalize")
  /\ UNCHANGED << keyVars, fnVars, limVars, concVars, inputs, remaining, cacheAvail, store, request, params, cacheKey,
                  block, task, wg, mu, errorMu, scraperErrors, filteredProducts,
                  response, result, calls, cacheGets, cacheSets, faults, prev,
                  evicted >>

\* applyFilters
FilterStage ==
  /\ pc = "filter"
  /\ filteredProducts' = applyFilters(Val(allProducts), params.Filters)
  /\ pc' = Following("filter")
  /\ trace' = Append(trace, "Filter")
  /\ UNCHANGED << keyVars, fnVars, limVars, concVars, inputs, remaining, cacheAvail, store, request, params, cacheKey,
                  block, task, wg, mu, errorMu, allProducts, scraperErrors, response,
                  result, calls, cacheGets, cacheSets, faults, prev, evicted >>

\* applySorting, in place: with no filter the sorted slice is allProducts itself
SortStage ==
  /\ pc = "sort"
  /\ \E sorted \in applySorting(Elems(filteredProducts), params.Sort) :
       /\ filteredProducts' = IF IsNil(filteredProducts) THEN Nil ELSE Some(sorted)
       /\ allProducts' = IF IsNil(params.Filters) THEN Some(sorted) ELSE allProducts
  /\ pc' = Following("sort")
  /\ trace' = Append(trace, "Sort")
  /\ UNCHANGED << keyVars, fnVars, limVars, concVars, inputs, remaining, cacheAvail, store, request, params, cacheKey,
                  block, task, wg, mu, errorMu, scraperErrors, response, result,
                  calls, cacheGets, cacheSets, faults, prev, evicted >>

\* applyPagination and the response; a panic of the slice expression leaves
\* SearchProducts without a return
PaginateStage ==
  /\ pc = "paginate"
  /\ LET paged == applyPagination(Elems(filteredProducts), params.Page, params.Limit)
     IN  IF paged.panic
         THEN /\ pc' = "panicked"
              /\ result' = [ kind |-> "panic", response |-> Nil ]
              /\ response' = response
         ELSE /\ pc' = Following("paginate")
              /\ result' = result
              /\ response' = Some(MkResponse(params, Country, paged.products,
                                             Len(Elems(filteredProducts)),
                                             paged.totalPages))
  /\ trace' = Append(trace, "Paginate")
  /\ UNCHANGED << keyVars, fnVars, limVars, concVars, inputs, remaining, cacheAvail, store, request, params, cacheKey,
                  block, task, wg, mu, errorMu, allProducts, scraperErrors,
                  filteredProducts, calls, cacheGets, cacheSets, faults, prev,
                  evicted >>

\* Seeded fault: the filtered listings are cached in place of the page
CachedListing(resp, filtered) == [resp EXCEPT !.Products = Some(filtered)]

\* What SearchProducts hands to SetSearchResults: the response, whose
\* Products are the page and not the filtered listings
Cached(resp, filtered) == resp

\* Seeded fault: no write after a read that failed
StoreGuardCleanRead == CacheUsable /\ cacheKey # <<>> /\ ~faults

\* The guard of "Cache the response"
StoreGuard == CacheUsable /\ cacheKey # <<>>

\* "Cache the response": under the guard, SetSearchResults with each of its
\* outcomes; then the return
CacheStore ==
  /\ pc = "store"
  /\ trace' = Append(trace, "CacheStore")
  /\ IF StoreGuard
     THEN LET m == Marshal(Cached(Val(response), Elems(filteredProducts)))
          IN  /\ cacheSets' = cacheSets + 1
              /\ IF ~m[1]
                 THEN \* json.Marshal fails: nothing is sent to the backend
                      UNCHANGED << store, faults >>
                 ELSE \/ /\ store' = [k \in DOMAIN store \cup { cacheKey } |->
                                        IF k = cacheKey THEN m[2] ELSE store[k]]
                         /\ faults' = faults
                      \/ \* the backend fails
                         /\ store' = store
                         /\ faults' = TRUE
     ELSE UNCHANGED << cacheSets, store, faults >>
  /\ result' = [ kind |-> "ok", response |-> response ]
  /\ pc' = Following("store")
  /\ UNCHANGED << keyVars, fnVars, limVars, concVars, inputs, remaining, cacheAvail, request, params, cacheKey, block,
                  task, wg, mu, errorMu, allProducts, scraperErrors, filteredProducts,
                  response, calls, cacheGets, prev, evicted >>

(* ------------------------------- the environment ----------------------- *)

\* A key's TTL runs out (or the key is flushed) between two calls
Expire ==
  /\ pc \in { "returned", "panicked" }
  /\ remaining > 0
  /\ \E k \in DOMAIN store : store' = [x \in DOMAIN store \ { k } |-> store[x]]
  /\ evicted' = TRUE
  /\ UNCHANGED << keyVars, fnVars, limVars, concVars, inputs, remaining, cacheAvail, pc, request, params, cacheKey, block,
                  task, wg, mu, errorMu, allProducts, scraperErrors, filteredProducts,
                  response, result, trace, calls, cacheGets, cacheSets, faults, prev >>

(* ------------------------------- the requests -------------------------- *)

StrTv == << "t", "v" >>

StrUk == << "u", "k" >>

StrPrice == << "p", "r", "i", "c", "e" >>

StrAsc == << "a", "s", "c" >>

StrDesc == << "d", "e", "s", "c" >>

\* 2^62 + 1: a page number strconv.Atoi accepts
PageHuge == << 1, 0, 0, 0, 0, 0, 0, 64 >>

\* q=tv&country=uk&limit=1
ReqPlain == MkParams(StrTv, StrUk, I64(1), I64(1), Nil, Nil)

\* q=tv&country=UK&page=2&limit=1&source=EBAY&in_stock=false&sort=price&order=desc
ReqFiltered ==
  MkParams(StrTv, ToUpper(StrUk), I64(2), I64(1),
           Some(MkFilters(0, 0, Some(FALSE), 0, << "E", "B", "A", "Y" >>)),
           Some(MkSort(StrPrice, StrDesc)))

\* q=%20&country=uk&page=0&limit=0
ReqBlank == MkParams(<< " " >>, StrUk, I64(0), I64(0), Nil, Nil)

\* q=tv with nothing else set by the caller
ReqDefault == MkParams(StrTv, <<>>, I64(0), I64(0), Nil, Nil)

\* q=tv&country=IN
ReqExplicitIN == MkParams(StrTv, StrIN, I64(0), I64(0), Nil, Nil)

\* no q
ReqEmpty == MkParams(<<>>, StrUk, I64(1), I64(10), Nil, Nil)

\* q=tv&country=uk&page=4611686018427387905&limit=2
ReqHugePage == MkParams(StrTv, StrUk, PageHuge, I64(2), Nil, Nil)

\* q=tv&country=uk&page=4611686018427387905&limit=4
ReqWrapPage == MkParams(StrTv, StrUk, PageHuge, I64(4), Nil, Nil)

\* q=tv&country=uk&min_price=NaN&limit=101
ReqNaN ==
  MkParams(StrTv, StrUk, I64(1), I64(101), Some(MkFilters(NaN, 0, Nil, 0, <<>>)), Nil)

\* q=tv&country=uk&sort=price&order=up
ReqBadSort ==
  MkParams(StrTv, StrUk, I64(1), I64(10), Nil, Some(MkSort(StrPrice, << "u", "p" >>)))

\* q=tv&country=uk&min_price=2&max_price=1
ReqBadRange ==
  MkParams(StrTv, StrUk, I64(1), I64(10),
           Some(MkFilters(2 * FloatScale, FloatScale, Nil, 0, <<>>)), Nil)

\* q=tv&country=uk&min_price=-1
ReqNegMin ==
  MkParams(StrTv, StrUk, I64(1), I64(10),
           Some(MkFilters(0 - FloatScale, 0, Nil, 0, <<>>)), Nil)

\* q=tv&country=uk&min_rating=6
ReqBadRating ==
  MkParams(StrTv, StrUk, I64(1), I64(10),
           Some(MkFilters(0, 0, Nil, 6 * FloatScale, <<>>)), Nil)

\* q=tv&country=uk&max_price=-5
ReqNegMax ==
  MkParams(StrTv, StrUk, I64(1), I64(10),
           Some(MkFilters(0, 0 - 5 * FloatScale, Nil, 0, <<>>)), Nil)

\* SearchProducts called with Page -3 and Limit -1
ReqNegPage == MkParams(StrTv, StrUk, I64Neg(I64(3)), I64Neg(I64(1)), Nil, Nil)

\* q=tv&country=US&sort=price
ReqUS == MkParams(StrTv, StrUS, I64(1), I64(10), Nil, Some(MkSort(StrPrice, StrAsc)))

\* q=tv&country=in&min_rating=3&sort=name
ReqIN ==
  MkParams(StrTv, << "i", "n" >>, I64(1), I64(2),
           Some(MkFilters(0, 0, Nil, 3 * FloatScale, <<>>)),
           Some(MkSort(<< "n", "a", "m", "e" >>, StrAsc)))

\* The calls made to one service in one run
MaxCalls == 2

\* The requests of one run: each run draws its calls from one of these sets
InputSets ==
  { { ReqPlain, ReqEmpty }, { ReqFiltered }, { ReqBlank },
    { ReqHugePage, ReqBadSort }, { ReqNaN, ReqBadRange },
    { ReqNegPage, ReqNegMin, ReqBadRating }, { ReqNegMax, ReqWrapPage } }

(* ------------------------------ specifications ------------------------- *)

\* The service as NewSearchService leaves it; redis reachable or not
InitService ==
  /\ cacheAvail \in BOOLEAN
  /\ store = <<>>
  /\ pc = "idle"
  /\ request = ReqEmpty
  /\ params = ReqEmpty
  /\ cacheKey = <<>>
  /\ block = 1
  /\ task = [r \in Retrievers |-> IdleTask]
  /\ wg = 0
  /\ mu = Free
  /\ errorMu = Free
  /\ allProducts = Nil
  /\ scraperErrors = <<>>
  /\ filteredProducts = Nil
  /\ response = Nil
  /\ result = NoResult
  /\ trace = <<>>
  /\ calls = [r \in Retrievers |-> 0]
  /\ cacheGets = 0
  /\ cacheSets = 0
  /\ faults = FALSE
  /\ prev = Nil
  /\ evicted = FALSE

NoKeys ==
  /\ keyArgs = << ReqEmpty, ReqEmpty >>
  /\ keyStage = "off"
  /\ keyOut = Nil

\* No function is called on its own
NoFn ==
  /\ fn = "off"
  /\ fnArgs = <<>>
  /\ fnOut = Nil

\* The goroutines that serve HTTP requests at the same time
Conns == { "g1", "g2" }

\* The client IPs
IPs == { "ip1", "ip2" }

\* The requests of the first client in one run
MaxRequests == 22

\* The requests of every other client in one run
MaxOtherRequests == 2

\* The refills of one run
MaxRefills == 1

RequestsOf(ip) == IF ip = "ip1" THEN MaxRequests ELSE MaxOtherRequests

\* The callers that use one SearchService at the same time
Callers == { "c1", "c2" }

IdleSession ==
  [ pc |-> "idle", n |-> 0, params |-> ReqEmpty, key |-> <<>>, selector |-> 1,
    products |-> <<>>, foundAny |-> FALSE, aggregate |-> <<>>, response |-> Nil,
    result |-> NoResult, wrote |-> FALSE ]

\* NewAmazonScraper: one collector, no callback of a Search on it; no call
NoSessions ==
  /\ session = [c \in Callers |-> IdleSession]
  /\ collector = <<>>

\* rateLimiters = make(map[string]*rate.Limiter), rateMutex unlocked, and no
\* request in the middleware
InitLimiter ==
  /\ rateLimiters = <<>>
  /\ rateMutex = [ readers |-> 0, writer |-> Free ]
  /\ buckets = <<>>
  /\ conn = [c \in Conns |-> [ pc |-> "idle", ip |-> "", limiter |-> 0, exists |-> FALSE ]]
  /\ arrivals = [ requests |-> [ip \in IPs |-> 0], refills |-> 0 ]

Init ==
  /\ InitService
  /\ NoKeys
  /\ NoFn
  /\ InitLimiter
  /\ NoSessions
  /\ inputs \in InputSets
  /\ remaining = MaxCalls

\* The steps of a call of SearchProducts
Serve ==
  \/ \E req \in inputs : Call(req)
  \/ Validate
  \/ CacheLookup
  \/ Spawn
  \/ \E r \in Retrievers : TaskSearch(r)
  \/ \E r \in Retrievers : TaskErrLock(r)
  \/ \E r \in Retrievers : TaskErrAppend(r)
  \/ \E r \in Retrievers : TaskProdLock(r)
  \/ \E r \in Retrievers : TaskProdAppend(r)
  \/ \E r \in Retrievers : TaskDone(r)
  \/ Wait
  \/ NormalizeStage
  \/ FilterStage
  \/ SortStage
  \/ PaginateStage
  \/ CacheStore

\* The calls, and the cache entries that expire between them
Next == Serve \/ Expire

Spec == Init /\ [][Next]_vars

\* One call, from every region: the fan-out of scrapeAllSources
InitAgg ==
  /\ InitService
  /\ NoKeys
  /\ NoFn
  /\ InitLimiter
  /\ NoSessions
  /\ inputs \in { { ReqUS }, { ReqIN, ReqDefault, ReqPlain, ReqExplicitIN } }
  /\ remaining = 1

SpecAgg == InitAgg /\ [][Serve]_vars

\* The steps of SearchProducts itself that the scheduler runs, but for
\* processProducts and applyPagination; the cache calls are not among them
Orchestrator ==
  \/ Validate
  \/ Spawn
  \/ Wait
  \/ FilterStage
  \/ SortStage

\* Weak fairness of NormalizeStage and of PaginateStage: each is enabled
\* exactly at its statement and leaves it, so WF_vars of it says that the
\* call is not at that statement for ever
StagesRun ==
  /\ []<>(pc # "normalize")
  /\ []<>(pc # "paginate")

\* The steps of the goroutine of r after its Search is back
Goroutine(r) ==
  \/ TaskErrLock(r)
  \/ TaskErrAppend(r)
  \/ TaskProdLock(r)
  \/ TaskProdAppend(r)
  \/ TaskDone(r)

\* One call, with two or three retrievers
InitLive ==
  /\ InitService
  /\ NoKeys
  /\ NoFn
  /\ InitLimiter
  /\ NoSessions
  /\ inputs \in { { ReqPlain, ReqHugePage, ReqEmpty }, { ReqIN } }
  /\ remaining = 1

\* The Go scheduler runs every goroutine that can take a step; whether a
\* scraper's Search or a cache call comes back is left open
SpecLive ==
  /\ InitLive
  /\ [][Serve]_vars
  /\ WF_vars(Orchestrator)
  /\ StagesRun
  /\ \A r \in Retrievers : WF_vars(Goroutine(r))

(* ------------------------ the cache key as a function ------------------- *)

KeyQueries == { << "a" >>, << "a", ":", "b" >> }

KeyCountries == { <<>>, StrIN, << "i", "n" >>, << "b", ":", "I", "N" >> }

KeyPages == { I64(0), I64(1), I64(2), PageHuge }

KeyLimits == { I64(0), I64(10), I64(100), I64(101) }

StrEbay == << "e", "b", "a", "y" >>

KeyFilters ==
  { Nil,
    Some(MkFilters(0, 0, Nil, 0, <<>>)),
    Some(MkFilters(2, 0, Nil, 0, <<>>)),
    Some(MkFilters(3, 0, Nil, 0, <<>>)),
    Some(MkFilters(0, 0 - FloatScale, Nil, 0, <<>>)),
    Some(MkFilters(0, 2 * FloatScale, Some(TRUE), 0, <<>>)),
    Some(MkFilters(0, 2 * FloatScale, Some(FALSE), 0, StrEbay)),
    Some(MkFilters(0, 0, Nil, FloatScale \div 8, StrEbay)),
    Some(MkFilters(0, 0, Nil, FloatScale \div 16, StrEbay)),
    Some(MkFilters(NaN, 0, Nil, NaN, ToUpper(StrEbay))) }

KeySorts == { Nil, Some(MkSort(StrPrice, StrAsc)), Some(MkSort(StrPrice, StrDesc)) }

KeyRequests ==
  { MkParams(q, c, pg, l, f, so) :
      q \in KeyQueries, c \in KeyCountries, pg \in { I64(1) }, l \in { I64(10) },
      f \in KeyFilters, so \in KeySorts }

\* The requests that differ from req in the query and country, or in one
\* other parameter
KeyVariants(req) ==
  { [req EXCEPT !.Query = q, !.Country = c] : q \in KeyQueries, c \in KeyCountries }
    \cup { [req EXCEPT !.Page = pg] : pg \in KeyPages }
    \cup { [req EXCEPT !.Limit = l] : l \in KeyLimits }
    \cup { [req EXCEPT !.Filters = f] : f \in KeyFilters }
    \cup { [req EXCEPT !.Sort = so] : so \in KeySorts }

InitKey ==
  /\ InitService
  /\ NoFn
  /\ InitLimiter
  /\ NoSessions
  /\ inputs = {}
  /\ remaining = 0
  /\ \E a \in KeyRequests : \E b \in KeyVariants(a) : keyArgs = << a, b >>
  /\ keyStage = "args"
  /\ keyOut = Nil

\* Both requests go through the country default and validateSearchParams
KeyPrepare ==
  /\ keyStage = "args"
  /\ LET va == validateSearchParams(DefaultCountry(keyArgs[1]))
         vb == validateSearchParams(DefaultCountry(keyArgs[2]))
     IN  /\ keyArgs' = << va[2], vb[2] >>
         /\ keyStage' = IF va[1] \/ vb[1] THEN "rejected" ELSE "validated"
  /\ keyOut' = keyOut
  /\ UNCHANGED << fnVars, limVars, concVars >>
  /\ UNCHANGED << inputs, remaining, cacheAvail, store, pc, request, params, cacheKey,
                  block, task, wg, mu, errorMu, allProducts, scraperErrors,
                  filteredProducts, response, result, trace, calls, cacheGets,
                  cacheSets, faults, prev, evicted >>

\* GenerateSearchKey on both
KeyGenerate ==
  /\ keyStage = "validated"
  /\ keyOut' = Some(<< GenerateSearchKey(keyArgs[1]), GenerateSearchKey(keyArgs[2]) >>)
  /\ keyStage' = "keyed"
  /\ keyArgs' = keyArgs
  /\ UNCHANGED << fnVars, limVars, concVars >>
  /\ UNCHANGED << inputs, remaining, cacheAvail, store, pc, request, params, cacheKey,
                  block, task, wg, mu, errorMu, allProducts, scraperErrors,
                  filteredProducts, response, result, trace, calls, cacheGets,
                  cacheSets, faults, prev, evicted >>

NextKey == KeyPrepare \/ KeyGenerate

SpecKey == InitKey /\ [][NextKey]_vars

(* ======================= the functions on their own ==================== *)

\* A listing whose scraper found no source name
ListingX1 ==
  MkProduct(<< "x", "1" >>, << "T", "v" >>, << "$", "2", ".", "0", "0" >>,
            << "2", ".", "5" >>, <<>>, TRUE, 7)

\* The longest slice handed to a function
MaxProducts == 3

SeqsUpTo(S, n) == UNION { [1..k -> S] : k \in 0..n }

\* Listings as processProducts leaves them
Processed == { Normalize(x) : x \in { ListingA1, ListingE1, ListingF1, ListingB1, ListingX1 } }

\* Filters that validateSearchParams lets through
FilterCases ==
  { Nil,
    Some(MkFilters(NaN, 0 - 5 * FloatScale, Nil, NaN, <<>>)),
    Some(MkFilters(0, 0, Nil, 0, <<>>)),
    Some(MkFilters(2 * FloatScale, 0, Nil, 0, <<>>)),
    Some(MkFilters(0, 2 * FloatScale, Nil, 0, <<>>)),
    Some(MkFilters(FloatScale, 1000 * FloatScale, Nil, 0, <<>>)),
    Some(MkFilters(0, 0, Some(TRUE), 0, <<>>)),
    Some(MkFilters(0, 0, Some(FALSE), 0, <<>>)),
    Some(MkFilters(0, 0, Nil, 3 * FloatScale, <<>>)),
    Some(MkFilters(0, 0, Nil, 5 * FloatScale, <<>>)),
    Some(MkFilters(0, 0, Nil, 0, << "E", "B", "A", "Y" >>)),
    Some(MkFilters(0, 0, Nil, 0, << "e", "b", "a", "y", " ", "u", "k" >>)),
    Some(MkFilters(0, 0, Nil, 0, << "a", "m", "a", "z", "o", "n" >>)),
    Some(MkFilters(FloatScale \div 2, 2 * FloatScale, Some(TRUE), 2 * FloatScale,
                   << "b", "u", "y" >>)) }

\* applyFilters(products, filters) called on its own
InitApplyFilters ==
  /\ fn = "applyFilters"
  /\ \E products \in SeqsUpTo(Processed, MaxProducts) : \E filters \in FilterCases :
       fnArgs = << products, filters >>
  /\ fnOut = Nil

CallApplyFilters ==
  /\ fn = "applyFilters"
  /\ IsNil(fnOut)
  /\ fnOut' = Some(applyFilters(fnArgs[1], fnArgs[2]))
  /\ UNCHANGED << fn, fnArgs >>
  /\ UNCHANGED << keyVars, limVars, concVars, inputs, remaining, cacheAvail, store, pc, request,
                  params,
                  cacheKey, block, task, wg, mu, errorMu, allProducts, scraperErrors,
                  filteredProducts, response, result, trace, calls, cacheGets,
                  cacheSets, faults, prev, evicted >>

\* Sort parameters that validateSearchParams lets through
SortCases ==
  { Nil,
    Some(MkSort(StrPrice, StrAsc)),
    Some(MkSort(StrPrice, StrDesc)),
    Some(MkSort(<< "r", "a", "t", "i", "n", "g" >>, StrDesc)),
    Some(MkSort(<< "r", "a", "t", "i", "n", "g" >>, StrAsc)),
    Some(MkSort(<< "n", "a", "m", "e" >>, StrAsc)),
    Some(MkSort(<< "n", "a", "m", "e" >>, StrDesc)) }

\* applySorting(products, sortParams) called on its own
InitApplySorting ==
  /\ fn = "applySorting"
  /\ \E products \in SeqsUpTo(Processed, MaxProducts) : \E sortParams \in SortCases :
       fnArgs = << products, sortParams >>
  /\ fnOut = Nil

\* The slice is left in one of the orders sort.Slice may produce
CallApplySorting ==
  /\ fn = "applySorting"
  /\ IsNil(fnOut)
  /\ \E sorted \in applySorting(fnArgs[1], fnArgs[2]) : fnOut' = Some(sorted)
  /\ UNCHANGED << fn, fnArgs >>
  /\ UNCHANGED << keyVars, limVars, concVars, inputs, remaining, cacheAvail, store, pc, request,
                  params,
                  cacheKey, block, task, wg, mu, errorMu, allProducts, scraperErrors,
                  filteredProducts, response, result, trace, calls, cacheGets,
                  cacheSets, faults, prev, evicted >>

\* 25 filtered listings
Listing25 == [i \in 1..25 |-> [Normalize(ListingE1) EXCEPT !.ScrapedAt = i]]

\* Pages from 1 up to the largest int; 2^62 + 1 among them
PageCases ==
  { I64(1), I64(2), I64(3), I64(4), I64(26), PageHuge,
    << 255, 255, 255, 255, 255, 255, 255, 127 >> }

\* Page sizes as validateSearchParams leaves them
LimitCases == { I64(1), I64(2), I64(4), I64(10), I64(100) }

\* applyPagination(products, page, limit) called on its own
InitApplyPagination ==
  /\ fn = "applyPagination"
  /\ \E products \in SeqsUpTo({ Normalize(ListingE1), Normalize(ListingX1) }, MaxProducts)
                       \cup { Listing25 } :
       \E page \in PageCases : \E limit \in LimitCases :
         fnArgs = << products, page, limit >>
  /\ fnOut = Nil

CallApplyPagination ==
  /\ fn = "applyPagination"
  /\ IsNil(fnOut)
  /\ fnOut' = Some(applyPagination(fnArgs[1], fnArgs[2], fnArgs[3]))
  /\ UNCHANGED << fn, fnArgs >>
  /\ UNCHANGED << keyVars, limVars, concVars, inputs, remaining, cacheAvail, store, pc, request,
                  params,
                  cacheKey, block, task, wg, mu, errorMu, allProducts, scraperErrors,
                  filteredProducts, response, result, trace, calls, cacheGets,
                  cacheSets, faults, prev, evicted >>

\* Price texts as the scrapers find them
PriceTexts ==
  { <<>>,
    << "$", "1", ",", "2", "3", "4", ".", "5", "6" >>,
    << "n", "o", " ", "p", "r", "i", "c", "e" >>,
    << "R", "s", ".", " ", "5", "0", "0" >>,
    << "$", "2", ".", "0", "0" >>,
    << "1", ".", "2", ".", "3" >>,
    << "4", "5" >>,
    << "E", "U", "R", " ", "1", "2", ".", "5", " ", "e", "a", "c", "h" >>,
    << " ", "$", " ", "7", " " >> }

\* ParsePrice(priceStr) called on its own
InitParsePrice ==
  /\ fn = "ParsePrice"
  /\ \E priceStr \in PriceTexts : fnArgs = << priceStr >>
  /\ fnOut = Nil

CallParsePrice ==
  /\ fn = "ParsePrice"
  /\ IsNil(fnOut)
  /\ fnOut' = Some(ParsePrice(fnArgs[1]))
  /\ UNCHANGED << fn, fnArgs >>
  /\ UNCHANGED << keyVars, limVars, concVars, inputs, remaining, cacheAvail, store, pc, request,
                  params,
                  cacheKey, block, task, wg, mu, errorMu, allProducts, scraperErrors,
                  filteredProducts, response, result, trace, calls, cacheGets,
                  cacheSets, faults, prev, evicted >>

\* The service is there and idle while a function is called on its own
InitFn ==
  /\ InitService
  /\ cacheAvail
  /\ NoKeys
  /\ InitLimiter
  /\ NoSessions
  /\ inputs = {}
  /\ remaining = 0
  /\ InitApplyFilters \/ InitApplySorting \/ InitApplyPagination \/ InitParsePrice

NextFn == CallApplyFilters \/ CallApplySorting \/ CallApplyPagination \/ CallParsePrice

SpecFn == InitFn /\ [][NextFn]_vars

(* ========================= the rate limit middleware =================== *)

\* rate.NewLimiter(rate.Limit(10), 20): the burst
Burst == 20

UnchangedService ==
  UNCHANGED << keyVars, fnVars, concVars, inputs, remaining, cacheAvail, store, pc, request, params,
               cacheKey, block, task, wg, mu, errorMu, allProducts, scraperErrors,
               filteredProducts, response, result, trace, calls, cacheGets, cacheSets,
               faults, prev, evicted >>

\* A request of a client arrives: ip := c.ClientIP()
Arrive(c, ip) ==
  /\ conn[c].pc = "idle"
  /\ arrivals.requests[ip] < RequestsOf(ip)
  /\ arrivals' = [arrivals EXCEPT !.requests[ip] = @ + 1]
  /\ conn' = [conn EXCEPT ![c] = [ pc |-> "rlock", ip |-> ip, limiter |-> 0,
                                   exists |-> FALSE ]]
  /\ UNCHANGED << rateLimiters, rateMutex, buckets >>
  /\ UnchangedService

\* getRateLimiter: rateMutex.RLock()
RLock(c) ==
  /\ conn[c].pc = "rlock"
  /\ rateMutex.writer = Free
  /\ rateMutex' = [rateMutex EXCEPT !.readers = @ + 1]
  /\ conn' = [conn EXCEPT ![c].pc = "read"]
  /\ UNCHANGED << rateLimiters, buckets, arrivals >>
  /\ UnchangedService

\* getRateLimiter: limiter, exists := rateLimiters[ip]; rateMutex.RUnlock()
ReadLimiter(c) ==
  /\ conn[c].pc = "read"
  /\ LET exists == conn[c].ip \in DOMAIN rateLimiters
     IN  conn' = [conn EXCEPT ![c].exists = exists,
                              ![c].limiter = IF exists THEN rateLimiters[conn[c].ip] ELSE 0,
                              ![c].pc = IF exists THEN "allow" ELSE "lock"]
  /\ rateMutex' = [rateMutex EXCEPT !.readers = @ - 1]
  /\ UNCHANGED << rateLimiters, buckets, arrivals >>
  /\ UnchangedService

\* getRateLimiter, !exists: rateMutex.Lock()
Lock(c) ==
  /\ conn[c].pc = "lock"
  /\ rateMutex.writer = Free
  /\ rateMutex.readers = 0
  /\ rateMutex' = [rateMutex EXCEPT !.writer = c]
  /\ conn' = [conn EXCEPT ![c].pc = "create"]
  /\ UNCHANGED << rateLimiters, buckets, arrivals >>
  /\ UnchangedService

\* getRateLimiter, !exists: rate.NewLimiter, the map entry, rateMutex.Unlock()
CreateLimiter(c) ==
  /\ conn[c].pc = "create"
  /\ LET id == Len(buckets) + 1
     IN  /\ buckets' = Append(buckets, [ ip |-> conn[c].ip, tokens |-> Burst, used |-> FALSE ])
         /\ rateLimiters' = [k \in DOMAIN rateLimiters \cup { conn[c].ip } |->
                               IF k = conn[c].ip THEN id ELSE rateLimiters[k]]
         /\ conn' = [conn EXCEPT ![c].limiter = id, ![c].pc = "allow"]
  /\ rateMutex' = [rateMutex EXCEPT !.writer = Free]
  /\ arrivals' = arrivals
  /\ UnchangedService

\* rateLimitMiddleware: limiter.Allow(), and c.Abort() when it says no
Allow(c) ==
  /\ conn[c].pc = "allow"
  /\ LET l == conn[c].limiter
     IN  IF buckets[l].tokens > 0
         THEN /\ buckets' = [buckets EXCEPT ![l].tokens = @ - 1, ![l].used = TRUE]
              /\ conn' = [conn EXCEPT ![c].pc = "next"]
         ELSE /\ buckets' = [buckets EXCEPT ![l].used = TRUE]
              /\ conn' = [conn EXCEPT ![c].pc = "aborted"]
  /\ UNCHANGED << rateLimiters, rateMutex, arrivals >>
  /\ UnchangedService

\* rateLimitMiddleware: c.Next(), the handlers after the middleware run
NextHandler(c) ==
  /\ conn[c].pc = "next"
  /\ conn' = [conn EXCEPT ![c].pc = "idle"]
  /\ UNCHANGED << rateLimiters, rateMutex, buckets, arrivals >>
  /\ UnchangedService

\* rateLimitMiddleware: the 429 response is written and the request is over
TooManyRequests(c) ==
  /\ conn[c].pc = "aborted"
  /\ conn' = [conn EXCEPT ![c].pc = "idle"]
  /\ UNCHANGED << rateLimiters, rateMutex, buckets, arrivals >>
  /\ UnchangedService

\* A tenth of a second passes: every limiter below its burst gains a token
Refill ==
  /\ arrivals.refills < MaxRefills
  /\ \E i \in 1..Len(buckets) : buckets[i].tokens < Burst
  /\ \A c \in Conns : conn[c].pc = "idle"
  /\ buckets' = [i \in 1..Len(buckets) |->
                   [buckets[i] EXCEPT !.tokens = IF @ < Burst THEN @ + 1 ELSE @]]
  /\ arrivals' = [arrivals EXCEPT !.refills = @ + 1]
  /\ UNCHANGED << rateLimiters, rateMutex, conn >>
  /\ UnchangedService

InitLimit ==
  /\ InitService
  /\ cacheAvail
  /\ NoKeys
  /\ NoFn
  /\ InitLimiter
  /\ NoSessions
  /\ inputs = {}
  /\ remaining = 0

NextLimit ==
  \/ \E c \in Conns : \E ip \in IPs : Arrive(c, ip)
  \/ \E c \in Conns : RLock(c)
  \/ \E c \in Conns : ReadLimiter(c)
  \/ \E c \in Conns : Lock(c)
  \/ \E c \in Conns : CreateLimiter(c)
  \/ \E c \in Conns : Allow(c)
  \/ \E c \in Conns : NextHandler(c)
  \/ \E c \in Conns : TooManyRequests(c)
  \/ Refill

SpecLimit == InitLimit /\ [][NextLimit]_vars

(* ================= calls that run at the same time ====================== *)

\* q=pc&country=in
ReqPc == MkParams(<< "p", "c" >>, << "i", "n" >>, I64(1), I64(10), Nil, Nil)

\* The calls made to the service in one run
MaxSessions == 2

\* The selectors the loop of AmazonScraper.Search goes through
NumSelectors == 5

\* What a search page shows for a product
Element(id, name, price) == [ id |-> id, name |-> name, price |-> price ]

ElemTv1 == Element(<< "t", "1" >>, << "T", "v", " ", "o", "n", "e" >>, << "$", "3", ".", "0", "0" >>)

ElemTv2 == Element(<< "t", "2" >>, << "T", "v", " ", "t", "w", "o" >>, << "$", "2", ".", "0", "0" >>)

ElemPc1 == Element(<< "p", "1" >>, << "P", "c", " ", "o", "n", "e" >>, << "$", "9", ".", "0", "0" >>)

\* The result elements the site may show for a query; the site need not
\* show the same for two visits
Pages(query) ==
  IF query = StrTv THEN { << ElemTv1 >>, << ElemTv1, ElemTv2 >> } ELSE { << ElemPc1 >> }

\* The visit of a caller's n-th call, as the time of the visit
VisitId(c, n) == (IF c = "c1" THEN 0 ELSE MaxSessions) + n

\* The calls made so far
RECURSIVE SessionsMade(_)
SessionsMade(cs) ==
  IF cs = {} THEN 0
  ELSE LET c == CHOOSE d \in cs : TRUE IN session[c].n + SessionsMade(cs \ { c })

\* The product the OnHTML callback of a Search builds from an element: the
\* country is the one of the Search that registered the callback
Scraped(e, country, now) ==
  MkProduct(e.id, e.name, e.price, <<>>,
            << "A", "m", "a", "z", "o", "n", " " >> \o ToUpper(country), TRUE, now)

\* The Search of caller c is between its first OnHTML and its return
InSearch(c) == session[c].pc \in { "register", "visit", "visited" }

UnchangedBySessions ==
  UNCHANGED << keyVars, fnVars, limVars, inputs, remaining, cacheAvail, pc, request, params,
               cacheKey, block, task, wg, mu, errorMu, allProducts, scraperErrors,
               filteredProducts, response, result, trace, calls, cacheGets, cacheSets,
               faults, prev, evicted >>

\* SearchProducts is called: the country default and validateSearchParams
SessionCall(c, req) ==
  /\ session[c].pc \in { "idle", "returned" }
  /\ SessionsMade(Callers) < MaxSessions
  /\ LET v == validateSearchParams(DefaultCountry(req))
     IN  session' = [session EXCEPT ![c] =
           [ IdleSession EXCEPT !.n = session[c].n + 1,
                                !.params = v[2],
                                !.pc = IF v[1] THEN "returned" ELSE "lookup",
                                !.result = IF v[1] THEN [ kind |-> "error", response |-> Nil ]
                                           ELSE NoResult ]]
  /\ UNCHANGED << collector, store >>
  /\ UnchangedBySessions

\* "Try cache first": a hit returns the stored response, a miss goes on to
\* scrapeAllSources and the scraper's Search
SessionLookup(c) ==
  /\ session[c].pc = "lookup"
  /\ LET key == GenerateSearchKey(session[c].params)
     IN  IF ~CacheUsable
         THEN session' = [session EXCEPT ![c].pc = "register"]
         ELSE IF key \in DOMAIN store
         THEN session' = [session EXCEPT
                ![c].key = key,
                ![c].pc = "returned",
                ![c].result =
                  [ kind |-> "ok",
                    response |-> Some([Unmarshal(store[key]) EXCEPT !.Duration = DurationCached]) ]]
         ELSE session' = [session EXCEPT ![c].key = key, ![c].pc = "register"]
  /\ UNCHANGED << collector, store >>
  /\ UnchangedBySessions

\* AmazonScraper.Search: a.collector.OnHTML(selector, ...) on the collector
\* the field points to
SessionRegister(c) ==
  /\ session[c].pc = "register"
  /\ collector' = Append(collector, [ owner |-> c, n |-> session[c].n,
                                      country |-> ToUpper(session[c].params.Country) ])
  /\ session' = [session EXCEPT ![c].pc = "visit"]
  /\ store' = store
  /\ UnchangedBySessions

\* What the callbacks cbs add to the products of caller d when they run on
\* the elements es of a page fetched at time now
RECURSIVE Found(_, _, _, _)
Found(cbs, es, d, now) ==
  IF cbs = <<>> THEN <<>>
  ELSE (IF Head(cbs).owner = d /\ Head(cbs).n = session[d].n /\ InSearch(d)
        THEN [i \in 1..Len(es) |-> Scraped(es[i], Head(cbs).country, now)]
        ELSE <<>>)
       \o Found(Tail(cbs), es, d, now)

\* AmazonScraper.Search: a.collector.Visit(searchURL). The page comes with
\* result elements or without; with them, every OnHTML callback on the
\* collector runs on every element, whichever Search registered it
SessionVisit(c) ==
  /\ session[c].pc = "visit"
  /\ \E es \in Pages(session[c].params.Query) \cup { <<>> } :
       LET now == VisitId(c, session[c].n)
       IN  session' = [d \in Callers |->
             LET more == Found(collector, es, d, now)
                 next == IF d = c THEN [session[d] EXCEPT !.pc = "visited"] ELSE session[d]
             IN  IF more = <<>> THEN next
                 ELSE [next EXCEPT !.products = @ \o more, !.foundAny = TRUE]]
  /\ UNCHANGED << collector, store >>
  /\ UnchangedBySessions

\* AmazonScraper.Search: break when foundAny; else a.collector =
\* a.collector.Clone(), a collector without the callbacks, and the next
\* selector; after the loop the return, and with it scrapeAllSources
SessionAfterVisit(c) ==
  /\ session[c].pc = "visited"
  /\ IF session[c].foundAny
     THEN /\ session' = [session EXCEPT ![c].pc = "respond",
                                        ![c].aggregate = session[c].products]
          /\ collector' = collector
     ELSE /\ collector' = <<>>
          /\ IF session[c].selector < NumSelectors
             THEN session' = [session EXCEPT ![c].selector = @ + 1, ![c].pc = "register"]
             ELSE session' = [session EXCEPT ![c].pc = "respond",
                                             ![c].aggregate = session[c].products]
  /\ store' = store
  /\ UnchangedBySessions

\* The responses SearchProducts may build from an aggregate
Responses(p, aggregate) ==
  LET filtered == applyFilters(processProducts(aggregate), p.Filters)
  IN  { MkResponse(p, ToUpper(p.Country),
                   applyPagination(sorted, p.Page, p.Limit).products,
                   Len(Elems(filtered)),
                   applyPagination(sorted, p.Page, p.Limit).totalPages) :
          sorted \in applySorting(Elems(filtered), p.Sort) }

\* processProducts, applyFilters, applySorting, applyPagination and the
\* response
SessionRespond(c) ==
  /\ session[c].pc = "respond"
  /\ \E resp \in Responses(session[c].params, session[c].aggregate) :
       session' = [session EXCEPT ![c].response = Some(resp), ![c].pc = "store"]
  /\ UNCHANGED << collector, store >>
  /\ UnchangedBySessions

\* Seeded fault: SET with NX, which keeps the value that is there
SetIfAbsent(db, key, data) ==
  IF key \in DOMAIN db THEN db
  ELSE [k \in DOMAIN db \cup { key } |-> IF k = key THEN data ELSE db[k]]

\* r.client.Set(r.ctx, key, data, r.ttl): the value of the key is replaced
Set(db, key, data) ==
  [k \in DOMAIN db \cup { key } |-> IF k = key THEN data ELSE db[k]]

\* "Cache the response": SetSearchResults under the guard, and the return,
\* after which the locals of the call are gone
SessionStore(c) ==
  /\ session[c].pc = "store"
  /\ LET m == Marshal(Val(session[c].response))
         writes == CacheUsable /\ session[c].key # <<>> /\ m[1]
     IN  /\ store' = IF writes THEN Set(store, session[c].key, m[2]) ELSE store
         /\ session' = [session EXCEPT ![c] =
              [ IdleSession EXCEPT
                  !.pc = "returned",
                  !.n = session[c].n,
                  !.params = session[c].params,
                  !.key = session[c].key,
                  !.wrote = writes,
                  !.result = [ kind |-> "ok", response |-> session[c].response ] ]]
  /\ collector' = collector
  /\ UnchangedBySessions

\* Two callers, the cache reachable or not
InitConc ==
  /\ InitService
  /\ NoKeys
  /\ NoFn
  /\ InitLimiter
  /\ NoSessions
  /\ inputs = { ReqPlain, ReqPc }
  /\ remaining = 0

NextConc ==
  \/ \E c \in Callers : \E req \in inputs : SessionCall(c, req)
  \/ \E c \in Callers : SessionLookup(c)
  \/ \E c \in Callers : SessionRegister(c)
  \/ \E c \in Callers : SessionVisit(c)
  \/ \E c \in Callers : SessionAfterVisit(c)
  \/ \E c \in Callers : SessionRespond(c)
  \/ \E c \in Callers : SessionStore(c)

SpecConc == InitConc /\ [][NextConc]_vars

(* ====================== properties of SearchProducts ==================== *)

\* The request passes validateSearchParams (after the country default)
Accepted(req) == ~validateSearchParams(DefaultCountry(req))[1]

\* The call is over: SearchProducts returned, or a panic left it
Finished == pc \in { "returned", "panicked" }

\* The response of the finished call came out of the cache
Hit ==
  /\ pc = "returned"
  /\ result.kind = "ok"
  /\ Val(result.response).Duration = DurationCached

\* scrapeAllSources was entered in this call
AggregateRan == \E i \in 1..Len(trace) : trace[i] = "Aggregate"

NoRetrieverCalled == \A r \in Retrievers : calls[r] = 0

(* -------------------------------- C1 ----------------------------------- *)

\* C1: every request that passes validation comes back as a success
\* response with a nil error, whatever the retrievers and the cache do during
\* the call, and an error comes back only when validation rejects the request.
C1_ValidatedRequestSucceeds ==
  Finished =>
    IF Accepted(request)
    THEN result.kind = "ok" /\ ~IsNil(result.response)
    ELSE result.kind = "error" /\ IsNil(result.response)

(* -------------------------------- C2 ----------------------------------- *)

Listings == { ListingA1, ListingA2, ListingE1, ListingF1, ListingW1, ListingB1 }

Count(seq, x) == Cardinality({ i \in 1..Len(seq) : seq[i] = x })

\* The goroutine of r ran to its end and its Search returned
ReturnedNormally(r) == task[r].pc = "done" /\ ~task[r].out.panic

\* How many times the retrievers of rs that returned normally returned x
RECURSIVE Delivered(_, _)
Delivered(rs, x) ==
  IF rs = {} THEN 0
  ELSE LET r == CHOOSE q \in rs : TRUE
       IN  (IF ReturnedNormally(r) THEN Count(Elems(task[r].out.products), x) ELSE 0)
           + Delivered(rs \ { r }, x)

\* No applicable retriever delivered a listing
NothingDelivered ==
  \A r \in Retrievers : ~ReturnedNormally(r) \/ Elems(task[r].out.products) = <<>>

\* C2: when scrapeAllSources returns, under every interleaving of the
\* goroutines, its slice is non-nil and holds each listing exactly as many
\* times as the retrievers that returned normally returned it, so nothing of
\* a panicked retriever; and when nothing was delivered the slice is empty
\* and the call returns a success with total 0.
C2_AggregateIsWhatReturned ==
  /\ pc = "normalize" =>
       /\ ~IsNil(allProducts)
       /\ \A r \in Retrievers : task[r].pc \in { "idle", "done" }
       /\ \A i \in 1..Len(Val(allProducts)) : Val(allProducts)[i] \in Listings
       /\ \A x \in Listings : Count(Val(allProducts), x) = Delivered(Retrievers, x)
       /\ NothingDelivered => allProducts = Some(<<>>)
  /\ (Finished /\ AggregateRan /\ NothingDelivered) =>
       /\ result.kind = "ok"
       /\ Val(result.response).Total = 0
       /\ Val(result.response).Products = Some(<<>>)

\* One retriever panicked, another returned listings, and the slice is back
C2_Witness ==
  /\ pc = "normalize"
  /\ \E r \in Retrievers : task[r].pc = "done" /\ task[r].out.panic
  /\ \E r \in Retrievers : ReturnedNormally(r) /\ task[r].out.err
  /\ Len(Val(allProducts)) >= 3

(* -------------------------------- C3 ----------------------------------- *)

\* The region SearchProducts works with
Region == ToUpper(DefaultCountry(request).Country)

\* README, "Supported Sources by Country"
InvocationsDue(r) ==
  CASE r \in { "Amazon", "eBay" } -> 1
    [] r = "Flipkart" -> IF Region = StrIN THEN 1 ELSE 0
    [] r \in { "Walmart", "Target", "BestBuy" } -> IF Region = StrUS THEN 1 ELSE 0

\* C3: in a call that is not served from the cache, once scrapeAllSources
\* has returned, each retriever's Search has been invoked exactly once if it
\* is applicable to the upper-cased region and never otherwise; at no moment
\* has a retriever been invoked more often than that.
C3_OncePerApplicableRetriever ==
  /\ \A r \in Retrievers : calls[r] <= InvocationsDue(r)
  /\ (pc \in { "normalize", "filter", "sort", "paginate", "store" }
        \/ (Finished /\ AggregateRan)) =>
       \A r \in Retrievers : calls[r] = InvocationsDue(r)

\* A call for region US is over: five retrievers invoked, Flipkart not
C3_Witness ==
  /\ pc = "returned"
  /\ Region = StrUS
  /\ calls["Walmart"] = 1 /\ calls["Target"] = 1 /\ calls["BestBuy"] = 1
  /\ calls["Flipkart"] = 0

(* -------------------------------- C4 ----------------------------------- *)

Stages ==
  << "Validate", "CacheLookup", "Aggregate", "Normalize", "Filter", "Sort", "Paginate",
     "CacheStore" >>

IsPrefix(s, t) == Len(s) <= Len(t) /\ s = SubSeq(t, 1, Len(s))

\* C4: the stages a call has run are always a prefix of Validate,
\* CacheLookup, Aggregate, Normalize, Filter, Sort, Paginate, CacheStore (so
\* none twice, none out of order); a call that returns the cached response
\* ran Validate and CacheLookup only, invoked no retriever and wrote nothing
\* to the cache; a call that returns a computed response ran all of them.
C4_StagesInOrder ==
  /\ IsPrefix(trace, Stages)
  /\ Hit =>
       /\ trace = << "Validate", "CacheLookup" >>
       /\ NoRetrieverCalled
       /\ cacheSets = 0
       /\ IsNil(allProducts) /\ IsNil(filteredProducts) /\ IsNil(response)
  /\ (pc = "returned" /\ result.kind = "ok" /\ ~Hit) => trace = Stages
  /\ (pc = "returned" /\ result.kind = "error") => trace = << "Validate" >>

\* A second call is served from the cache
C4_Witness == Hit /\ remaining = 0 /\ ~IsNil(prev) /\ Val(prev).result.kind = "ok"

(* -------------------------------- C5 ----------------------------------- *)

\* The two responses agree in every field but the duration
SameButDuration(a, b) ==
  /\ ~IsNil(a) /\ ~IsNil(b)
  /\ [Val(a) EXCEPT !.Duration = DurationLive] = [Val(b) EXCEPT !.Duration = DurationLive]

\* C5: with a reachable cache backend and no expiry or flush in between, the
\* second of two identical accepted requests issued one after the other gets
\* a response equal to the first in every field but the duration, and is
\* served from the cache without a retriever being invoked.
C5_SecondServedFromCache ==
  ( /\ Finished
    /\ ~IsNil(prev)
    /\ Val(prev).request = request
    /\ Accepted(request)
    /\ cacheAvail /\ ~faults /\ ~Val(prev).faults /\ ~Val(prev).evicted ) =>
    /\ result.kind = "ok"
    /\ Val(prev).result.kind = "ok"
    /\ SameButDuration(result.response, Val(prev).result.response)
    /\ NoRetrieverCalled

(* -------------------------------- C6 ----------------------------------- *)

\* SetSearchResults changes the cache in this step
WriteSucceeds ==
  /\ pc = "store"
  /\ cacheSets' = cacheSets + 1
  /\ store' # store

\* The response the call computes from the filtered and sorted listings
LiveResponse ==
  LET paged == applyPagination(Elems(filteredProducts), params.Page, params.Limit)
  IN  MkResponse(params, Country, paged.products, Len(Elems(filteredProducts)),
                 paged.totalPages)

\* C6 (as the code has it): on a cache miss, the value written to the cache
\* is the response returned to the caller: it holds the listings of the
\* requested page only, at most `limit` of them, next to the post-filter
\* count `total`, under the key of the request, page and page size included.
C6_StoresReturnedPage ==
  [][WriteSucceeds =>
       /\ cacheKey = GenerateSearchKey(params)
       /\ cacheKey \in DOMAIN store'
       /\ Unmarshal(store'[cacheKey]) = Val(result'.response)
       /\ Val(result'.response) = LiveResponse
       /\ Len(Val(LiveResponse.Products)) <= I64ToNat(params.Limit)
       /\ LiveResponse.Total = Len(Elems(filteredProducts))]_vars

\* The value in the cache after a miss, decoded
StoredResponse == Unmarshal(store[cacheKey])

\* The call wrote its value and returned
Wrote ==
  /\ pc = "returned"
  /\ result.kind = "ok"
  /\ ~Hit
  /\ cacheSets = 1
  /\ ~faults
  /\ cacheKey \in DOMAIN store

\* A miss wrote a page that is shorter than the filtered listing
C6_Witness ==
  /\ Wrote
  /\ StoredResponse.Total = 3
  /\ Len(Val(StoredResponse.Products)) = 1

\* C6 (as stated): on a cache miss, the value written to the cache holds all
\* `total` listings that passed the filters, not only those of the page.
C6_StoresFullListing ==
  Wrote =>
    /\ Len(Val(StoredResponse.Products)) = StoredResponse.Total
    /\ Val(StoredResponse.Products) = Elems(filteredProducts)

(* -------------------------------- C7 ----------------------------------- *)

C7_State ==
  /\ ~cacheAvail =>
       /\ cacheGets = 0
       /\ cacheSets = 0
       /\ DOMAIN store = {}
       /\ cacheKey = <<>>
       /\ ~faults
       /\ ~Hit
  /\ (~cacheAvail /\ Finished /\ Accepted(request)) =>
       /\ AggregateRan
       /\ \A r \in Retrievers : calls[r] = InvocationsDue(r)
  /\ (pc = "returned" /\ result.kind = "ok" /\ ~Hit) =>
       result.response = Some(LiveResponse)

\* C7: with a cache that was unreachable at construction, no call performs
\* a cache get or a cache set, every accepted call runs the live aggregation,
\* and what it returns is the response a miss computes from the same
\* listings; the availability never changes after construction.
C7_NoCacheAlwaysComputes ==
  []C7_State /\ [][cacheAvail' = cacheAvail]_vars

\* Without a cache, a second call has computed its response
C7_Witness ==
  /\ ~cacheAvail
  /\ pc = "returned"
  /\ result.kind = "ok"
  /\ remaining = 0
  /\ calls["Amazon"] = 1 /\ calls["eBay"] = 1
  /\ Val(result.response).Total >= 1

(* ======================= properties of the cache key ==================== *)

\* The two keys are out
Keyed == keyStage = "keyed"

\* The predicates applyFilters applies for these filters
EffectiveFilters(f) ==
  IF IsNil(f) THEN MkFilters(0, 0, Nil, 0, <<>>)
  ELSE MkFilters(IF FGt(Val(f).MinPrice, 0) THEN Val(f).MinPrice ELSE 0,
                 IF FGt(Val(f).MaxPrice, 0) THEN Val(f).MaxPrice ELSE 0,
                 Val(f).InStock,
                 IF FGt(Val(f).MinRating, 0) THEN Val(f).MinRating ELSE 0,
                 ToLower(Val(f).Source))

\* What the orchestrator does with a validated request depends on this much
Treatment(req) ==
  [ Query |-> req.Query, Region |-> ToUpper(req.Country), Page |-> req.Page,
    Limit |-> req.Limit, Filters |-> EffectiveFilters(req.Filters), Sort |-> req.Sort ]

\* C8: two validated requests that the orchestrator treats identically (same
\* query, same region after the default and the upper-casing, same coerced
\* page and page size, same effective filter predicates, same sort) get the
\* same cache key; region codes that differ only in letter case included.
C8_SameTreatmentSameKey ==
  (Keyed /\ Treatment(keyArgs[1]) = Treatment(keyArgs[2])) =>
    Val(keyOut)[1] = Val(keyOut)[2]

\* The filter fields as given, an absent filter being the all-default one
GivenFilters(f) == IF IsNil(f) THEN MkFilters(0, 0, Nil, 0, <<>>) ELSE Val(f)

\* The parameters the key is to tell apart
Parameters(req) ==
  [ Query |-> req.Query, Region |-> ToUpper(req.Country), Page |-> req.Page,
    Limit |-> req.Limit, Filters |-> GivenFilters(req.Filters), Sort |-> req.Sort ]

\* C9: two validated requests that differ in query, region, page, page size
\* or a non-default filter or sort field never get the same cache key.
C9_DifferentRequestsDifferentKeys ==
  (Keyed /\ Val(keyOut)[1] = Val(keyOut)[2]) =>
    Parameters(keyArgs[1]) = Parameters(keyArgs[2])

(* -------------------------------- C10 ---------------------------------- *)

\* C10: a request whose query is empty after trimming is answered with a
\* validation error, and its call makes no cache call and no retriever call.
C10_BlankQueryRejected ==
  (pc # "idle" /\ TrimSpace(request.Query) = <<>>) =>
    /\ cacheGets = 0
    /\ cacheSets = 0
    /\ NoRetrieverCalled
    /\ Finished => result.kind = "error"

(* -------------------------------- C11 ---------------------------------- *)

\* The reasons for a rejection: empty query, negative minimum price,
\* inverted price range, minimum rating outside 0..5, invalid sort
Malformed(req) ==
  \/ req.Query = <<>>
  \/ /\ ~IsNil(req.Filters)
     /\ LET f == Val(req.Filters)
        IN  \/ FLt(f.MinPrice, 0)
            \/ (FGt(f.MinPrice, 0) /\ FGt(f.MaxPrice, 0) /\ FLt(f.MaxPrice, f.MinPrice))
            \/ FLt(f.MinRating, 0)
            \/ FGt(f.MinRating, 5 * FloatScale)
  \/ /\ ~IsNil(req.Sort)
     /\ \/ Val(req.Sort).Field \notin { StrPrice, << "r", "a", "t", "i", "n", "g" >>,
                                        << "n", "a", "m", "e" >> }
        \/ Val(req.Sort).Order \notin { StrAsc, StrDesc }

\* Nothing of the call has touched the cache or a retriever
NoIO ==
  /\ cacheKey = <<>>
  /\ cacheGets = 0
  /\ cacheSets = 0
  /\ NoRetrieverCalled
  /\ \A r \in Retrievers : task[r].pc = "idle"
  /\ wg = 0
  /\ block = 1
  /\ IsNil(allProducts)

\* C11: a call that validation rejects returns its error before any I/O: no
\* cache key is generated, no cache get or set is issued and no retriever
\* task is started; every request with one of the listed defects is rejected
\* that way.
C11_RejectedBeforeIO ==
  /\ (pc = "returned" /\ result.kind = "error") => NoIO /\ trace = << "Validate" >>
  /\ (pc # "idle" /\ Malformed(request)) =>
       /\ NoIO
       /\ Finished => result.kind = "error"

\* The second call of a run is rejected for its minimum rating, with the
\* cache filled or not by the first
C11_Witness ==
  /\ pc = "returned"
  /\ result.kind = "error"
  /\ request = ReqBadRating
  /\ ~IsNil(prev)

(* -------------------------------- C12 ---------------------------------- *)

\* Page and page size as the README has them after coercion
CoercedPage(req) == IF I64IsNeg(req.Page) \/ req.Page = I64Zero THEN I64(1) ELSE req.Page

CoercedLimit(req) ==
  IF I64IsNeg(req.Limit) \/ req.Limit = I64Zero THEN I64(10)
  ELSE IF I64Lt(I64(100), req.Limit) THEN I64(100) ELSE req.Limit

InRange(req) ==
  /\ I64Le(I64(1), req.Page)
  /\ I64Le(I64(1), req.Limit)
  /\ I64Le(req.Limit, I64(100))

\* C12: whatever page and page size the request carries, the cache key,
\* the pagination and the response work with the coerced values: page >= 1
\* (non-positive becomes 1), 1 <= page size <= 100 (non-positive becomes 10,
\* above 100 becomes 100).
C12_CoercedBeforeUse ==
  (pc \notin { "idle", "validate" } /\ result.kind # "error") =>
    /\ InRange(params)
    /\ params.Page = CoercedPage(request)
    /\ params.Limit = CoercedLimit(request)
    /\ cacheKey # <<>> =>
         cacheKey = GenerateSearchKey([DefaultCountry(request) EXCEPT
                                         !.Page = CoercedPage(request),
                                         !.Limit = CoercedLimit(request)])
    /\ ~IsNil(response) =>
         /\ Val(response).Page = CoercedPage(request)
         /\ Val(response).Limit = CoercedLimit(request)
         /\ Len(Val(Val(response).Products)) <= I64ToNat(CoercedLimit(request))
    /\ result.kind = "ok" =>
         /\ Val(result.response).Page = CoercedPage(request)
         /\ Val(result.response).Limit = CoercedLimit(request)

\* A call with limit 101 has returned a response with limit 100
C12_Witness ==
  /\ pc = "returned"
  /\ result.kind = "ok"
  /\ request.Limit = I64(101)
  /\ Val(result.response).Limit = I64(100)
  /\ cacheKey # <<>>

(* -------------------------------- C13 ---------------------------------- *)

\* a >= b on float64: false when either is NaN
AtLeast(a, b) == FGt(a, b) \/ (a = b /\ a # NaN)

\* The Filter and SortSpec constraints of the data model
WellFormed(req) ==
  /\ IsNil(req.Filters) \/
       LET f == Val(req.Filters)
       IN  /\ AtLeast(f.MinPrice, 0)
           /\ AtLeast(f.MaxPrice, 0)
           /\ FGt(f.MaxPrice, 0) => AtLeast(f.MaxPrice, f.MinPrice)
           /\ AtLeast(f.MinRating, 0)
           /\ AtLeast(5 * FloatScale, f.MinRating)
  /\ IsNil(req.Sort) \/
       /\ Val(req.Sort).Field \in { StrPrice, << "r", "a", "t", "i", "n", "g" >>,
                                    << "n", "a", "m", "e" >> }
       /\ Val(req.Sort).Order \in { StrAsc, StrDesc }

\* C13: a request that validation accepts has minimum price >= 0, maximum
\* price >= 0, maximum >= minimum when a maximum is set, minimum rating in
\* 0..5 and a valid sort field and order; a request that breaks one of these
\* is rejected before aggregation.
C13_AcceptedIsWellFormed ==
  /\ (pc \notin { "idle", "validate" } /\ result.kind # "error") => WellFormed(params)
  /\ (pc # "idle" /\ ~WellFormed(request)) => ~AggregateRan /\ NoRetrieverCalled

(* ================== properties of the pipeline functions ================ *)

\* sub occurs in s
Occurs(sub, s) ==
  \E i \in 0..(Len(s) - Len(sub)) : \A j \in 1..Len(sub) : s[i + j] = sub[j]

\* A bound is specified when it is a positive number
Specified(bound) == bound # NaN /\ bound > 0

\* All the predicates that f specifies hold for the listing
Passes(product, f) ==
  /\ Specified(f.MinPrice) => product.PriceValue >= f.MinPrice
  /\ Specified(f.MaxPrice) => product.PriceValue <= f.MaxPrice
  /\ ~IsNil(f.InStock) => product.InStock = Val(f.InStock)
  /\ Specified(f.MinRating) => ParseRating(product.Rating) >= f.MinRating
  /\ f.Source # <<>> =>
       \/ Occurs(ToLower(f.Source), ToLower(product.Source))
       \/ Occurs(ToLower(product.Source), ToLower(f.Source))

\* applyFilters has returned
FilterDone == fn = "applyFilters" /\ ~IsNil(fnOut)

\* C14: applyFilters returns the listings of its input, in input order, for
\* which every specified predicate holds (price bounds on the normalized
\* price, stock flag, minimum parsed rating, case-insensitive substring match
\* of the source in either direction), no more and no fewer; with no filter
\* it returns its input unchanged.
C14_FilterRetainsExactly ==
  FilterDone =>
    LET products == fnArgs[1]
        filters  == fnArgs[2]
        out      == Val(fnOut)
    IN  IF IsNil(filters) THEN out = Some(products)
        ELSE Elems(out) = SelectSeq(products, LAMBDA x : Passes(x, Val(filters)))

\* A source filter that contains the listing's source keeps an eBay listing
\* and a listing with no source name, and drops an Amazon one
C14_Witness ==
  /\ FilterDone
  /\ fnArgs[1] = << Normalize(ListingA1), Normalize(ListingE1), Normalize(ListingX1) >>
  /\ ~IsNil(fnArgs[2])
  /\ Val(fnArgs[2]).Source = << "e", "b", "a", "y", " ", "u", "k" >>
  /\ Val(fnOut) = Some(<< Normalize(ListingE1), Normalize(ListingX1) >>)

(* -------------------------------- C15 ---------------------------------- *)

\* applySorting has returned
SortDone == fn = "applySorting" /\ ~IsNil(fnOut)

\* out is products in sorted order with the listings of equal sort key in
\* the order they had in products
StablySorted(products, sortParams, out) ==
  \E g \in Perms(Len(products)) :
    /\ out = [i \in 1..Len(products) |-> products[g[i]]]
    /\ \A i, j \in 1..Len(products) :
         i < j =>
           /\ ~SortLess(products[g[j]], products[g[i]], sortParams)
           /\ ~SortLess(products[g[i]], products[g[j]], sortParams) => g[i] < g[j]

\* C15: the sort stage is stable: two listings with equal sort keys come out
\* in the relative order they went in.
C15_SortIsStable ==
  (SortDone /\ ~IsNil(fnArgs[2])) => StablySorted(fnArgs[1], Val(fnArgs[2]), Val(fnOut))

(* -------------------------------- C16 ---------------------------------- *)

\* applyPagination has returned, or has panicked
PaginationDone == fn = "applyPagination" /\ ~IsNil(fnOut)

\* ceil(total / size)
Ceiling(total, size) == IF total % size = 0 THEN total \div size ELSE total \div size + 1

\* listings[start : min(start + size, total)] for start = (page - 1) * size,
\* and the empty page when start >= total, which is when page - 1 >=
\* ceil(total / size)
PageOf(listings, page, size) ==
  LET total == Len(listings)
  IN  IF I64Lt(I64(Ceiling(total, I64ToNat(size))), page) THEN <<>>
      ELSE LET start == (I64ToNat(page) - 1) * I64ToNat(size)
               end   == IF start + I64ToNat(size) < total THEN start + I64ToNat(size)
                        ELSE total
           IN  SubSeq(listings, start + 1, end)

\* C16: for every page >= 1 and every page size in 1..100, applyPagination
\* returns totalPages = ceil(total / size) and the page
\* listings[start : min(start + size, total)], start = (page - 1) * size, the
\* empty page when start >= total.
C16_PageIsSlice ==
  PaginationDone =>
    /\ ~Val(fnOut).panic
    /\ Val(fnOut).totalPages = Ceiling(Len(fnArgs[1]), I64ToNat(fnArgs[3]))
    /\ Val(fnOut).products = PageOf(fnArgs[1], fnArgs[2], fnArgs[3])

(* -------------------------------- C17 ---------------------------------- *)

\* The name of each retriever in a source list
DisplayName(r) ==
  CASE r = "Amazon" -> << "A", "m", "a", "z", "o", "n" >>
    [] r = "eBay" -> << "e", "B", "a", "y" >>
    [] r = "Flipkart" -> << "F", "l", "i", "p", "k", "a", "r", "t" >>
    [] r = "Walmart" -> << "W", "a", "l", "m", "a", "r", "t" >>
    [] r = "Target" -> << "T", "a", "r", "g", "e", "t" >>
    [] r = "BestBuy" -> << "B", "e", "s", "t", " ", "B", "u", "y" >>

\* The names of the retrievers of rs that this call invoked, with ", "
\* between them
RECURSIVE InvokedList(_)
InvokedList(rs) ==
  IF rs = <<>> THEN <<>>
  ELSE LET rest == InvokedList(Tail(rs))
       IN  IF calls[Head(rs)] = 0 THEN rest
           ELSE IF rest = <<>> THEN DisplayName(Head(rs))
           ELSE DisplayName(Head(rs)) \o << ",", " " >> \o rest

\* C17: the source list of a freshly computed response names exactly the
\* retrievers the aggregator invoked for the region: Amazon, eBay, Walmart,
\* Target, Best Buy for US; Amazon, eBay, Flipkart for IN; Amazon, eBay
\* otherwise.
C17_SourceListIsInvoked ==
  (pc = "returned" /\ result.kind = "ok" /\ ~Hit) =>
    Val(result.response).Source =
      InvokedList(<< "Amazon", "eBay", "Flipkart", "Walmart", "Target", "BestBuy" >>)

(* -------------------------------- C18 ---------------------------------- *)

\* The request with region "IN" spelled out
WithIN(req) == [req EXCEPT !.Country = StrIN]

\* C18: a request with no region code is handled as the same request with
\* region "IN": the validated parameters, the cache key, the retrievers
\* invoked (Amazon, eBay, Flipkart) and the source list are those of the
\* request with "IN", for the one and for the other.
C18_EmptyRegionIsIN ==
  (pc # "idle" /\ request.Country \in { <<>>, StrIN }) =>
    /\ params.Country = StrIN
    /\ pc # "validate" => params = validateSearchParams(WithIN(request))[2]
    /\ cacheKey # <<>> =>
         cacheKey = GenerateSearchKey(validateSearchParams(WithIN(request))[2])
    /\ \A r \in { "Walmart", "Target", "BestBuy" } : calls[r] = 0
    /\ (Finished /\ AggregateRan) =>
         \A r \in { "Amazon", "eBay", "Flipkart" } : calls[r] = 1
    /\ (pc = "returned" /\ result.kind = "ok" /\ ~Hit) =>
         Val(result.response).Source =
           << "A", "m", "a", "z", "o", "n", ",", " ", "e", "B", "a", "y", ",", " ",
              "F", "l", "i", "p", "k", "a", "r", "t" >>

\* A call with no region code has returned after Flipkart was invoked and
\* the key with IN was used
C18_Witness ==
  /\ pc = "returned"
  /\ result.kind = "ok"
  /\ request.Country = <<>>
  /\ calls["Flipkart"] = 1
  /\ cacheKey = GenerateSearchKey(validateSearchParams(ReqExplicitIN)[2])

(* -------------------------------- C19 ---------------------------------- *)

\* ParsePrice has returned
PriceDone == fn = "ParsePrice" /\ ~IsNil(fnOut)

RECURSIVE DigitRun(_)
DigitRun(s) == IF s # <<>> /\ IsDigit(Head(s)) THEN << Head(s) >> \o DigitRun(Tail(s)) ELSE <<>>

\* The numeric token at the head of s: digits, then at most one decimal
\* point with the digits after it
TokenAt(s) ==
  LET whole == DigitRun(s)
      rest  == SubSeq(s, Len(whole) + 1, Len(s))
  IN  IF rest # <<>> /\ Head(rest) = "." THEN whole \o << "." >> \o DigitRun(Tail(rest))
      ELSE whole

\* The first numeric token of s; it starts at a digit, or at a decimal
\* point with a digit after it
RECURSIVE FirstToken(_)
FirstToken(s) ==
  IF s = <<>> THEN <<>>
  ELSE IF IsDigit(Head(s)) \/ (Head(s) = "." /\ Len(s) > 1 /\ IsDigit(s[2])) THEN TokenAt(s)
  ELSE FirstToken(Tail(s))

\* The value of the first numeric token of the text once "$" and "," are
\* stripped, 0 when there is none
PriceOf(text) ==
  LET token == FirstToken(SelectSeq(text, LAMBDA c : c \notin { "$", "," }))
  IN  IF token = <<>> THEN 0 ELSE ParseFloat(token)[2]

\* C19: ParsePrice returns the value of the first numeric token (digits and
\* at most one decimal point) of the text with currency symbols and
\* thousands separators stripped, and 0 when there is no such token: "" gives
\* 0, "$1,234.56" gives 1234.56, "no price" gives 0, "Rs. 500" gives 500.
C19_PriceOfFirstToken ==
  PriceDone =>
    /\ Val(fnOut) = PriceOf(fnArgs[1])
    /\ fnArgs[1] = << "R", "s", ".", " ", "5", "0", "0" >> => Val(fnOut) = 500 * FloatScale

(* ====================== properties of the rate limit middleware ======== *)

\* The limiters that were created for a client IP
LimitersOf(ip) == { i \in 1..Len(buckets) : buckets[i].ip = ip }

\* The limiters of a client IP that a request was charged against
ChargedOf(ip) == { i \in LimitersOf(ip) : buckets[i].used }

\* A request that the limiter refused goes on to nothing but its 429 response
RefusedStops ==
  \A c \in Conns :
    /\ (conn[c].pc = "allow" /\ buckets[conn[c].limiter].tokens = 0)
         => conn'[c].pc \in { "allow", "aborted" }
    /\ conn[c].pc = "aborted" => conn'[c].pc \in { "aborted", "idle" }
    /\ conn[c].pc = "aborted" => (pc' = pc /\ store' = store /\ task' = task)

\* C20: rate limiting is per client IP with one token bucket of burst 20 per
\* IP: at most one limiter is ever created for an IP and at most one is ever
\* charged, also when the first requests of the IP arrive at the same time, no
\* limiter holds more than the burst, and a request the limiter refused never
\* reaches the handlers behind the middleware
C20_OneLimiterPerIP ==
  /\ [](\A ip \in IPs : Cardinality(LimitersOf(ip)) <= 1)
  /\ [](\A ip \in IPs : Cardinality(ChargedOf(ip)) <= 1)
  /\ [](\A i \in 1..Len(buckets) : buckets[i].tokens \in 0..Burst)
  /\ [][RefusedStops]_vars

(* ================== properties of the fan-out and the barrier ========== *)

\* scrapeAllSources has returned in this call
AggregateReturned ==
  \/ pc \in { "normalize", "filter", "sort", "paginate", "store" }
  \/ Finished /\ AggregateRan

\* The goroutines that were started and have not run their wg.Done()
Running == { r \in Retrievers : task[r].pc \notin { "idle", "done" } }

C21_State ==
  /\ wg = Cardinality(Running)
  /\ AggregateReturned =>
       /\ Running = {}
       /\ \A r \in Retrievers : Applicable(r, Country) <=> task[r].pc = "done"
       /\ mu = Free /\ errorMu = Free

\* Once scrapeAllSources has returned, no goroutine takes a step and the
\* error list stays as it is
QuietAfterReturn ==
  (AggregateReturned /\ pc' # "validate") =>
    /\ task' = task
    /\ wg' = wg
    /\ scraperErrors' = scraperErrors
    /\ calls' = calls

\* wg.Done() is the last step of a goroutine, and it takes one off the counter
DoneOnce ==
  \A r \in Retrievers :
    /\ (task[r].pc # "done" /\ task'[r].pc = "done") => wg' = wg - 1
    /\ (task[r].pc = "done" /\ pc' # "validate") => task'[r] = task[r]

\* C21: scrapeAllSources returns only after every goroutine it started has
\* finished, its Search returned or its panic recovered: the counter of the
\* wait group is the number of started goroutines that have not run Done,
\* each started goroutine takes one off it, once, as its last step, and after
\* the return no goroutine appends to the listings or to the errors.
C21_ReturnsAfterAllTasks ==
  /\ []C21_State
  /\ [][QuietAfterReturn /\ DoneOnce]_vars

\* scrapeAllSources has returned for region US, where one of the five
\* goroutines panicked and another recorded an error
C21_Witness ==
  /\ pc = "filter"
  /\ Region = StrUS
  /\ \E r \in Retrievers : task[r].pc = "done" /\ task[r].out.panic
  /\ Len(scraperErrors) >= 1

(* -------------------------------- C22 ---------------------------------- *)

\* Every Search that is called comes back, and so does every cache call
\* (GetSearchResults is called at "lookup" only, and the call leaves it then)
CollaboratorsReturn ==
  /\ \A r \in Retrievers : WF_vars(TaskSearch(r))
  /\ []<>(pc # "lookup")
  /\ WF_vars(CacheStore)

\* C22: under fair scheduling, and provided every invoked retriever returns or
\* panics and every cache call returns, SearchProducts returns for every
\* request that passed validation; there is no deadline in it, so while the
\* Search of one retriever stays out the call stays in scrapeAllSources.
C22_ReturnsIffRetrieversDo ==
  /\ CollaboratorsReturn =>
       ((pc = "lookup" /\ Accepted(request)) ~> pc = "returned")
  /\ \A r \in Retrievers :
       <>[](task[r].pc = "search") => <>[](pc = "aggregate")

(* -------------------------------- C23 ---------------------------------- *)

\* The goroutine of r was started
Started(r) == task[r].pc # "idle"

\* The blocks before the next one: those whose condition holds were started
StartedInOrder ==
  \A i \in 1..Len(RetrieverOrder) :
    (i < block /\ Applicable(RetrieverOrder[i], Country)) => Started(RetrieverOrder[i])

\* What a goroutine that ran to its end got from its Search is in the list
Appended(r) ==
  \A x \in Listings : Count(Elems(allProducts), x) >= Count(Elems(task[r].out.products), x)

C23_State ==
  pc = "aggregate" =>
    /\ StartedInOrder
    /\ mu # Free => task[mu].pc = "prodLocked"
    /\ errorMu # Free => task[errorMu].pc = "errLocked"
    /\ \A r \in Retrievers : ReturnedNormally(r) => Appended(r)

\* C23: every applicable retriever's goroutine is started whatever the
\* goroutines started before it do, no lock is held while a Search is out,
\* and a goroutine whose own Search comes back runs to its end, its listings
\* in the shared list, also when the Search of another retriever is slow,
\* fails, panics or never comes back.
C23_RetrieversIndependent ==
  /\ []C23_State
  /\ [](pc = "aggregate" => <>(\A r \in Retrievers : Applicable(r, Country) => Started(r)))
  /\ \A r \in Retrievers :
       WF_vars(TaskSearch(r)) => (task[r].pc = "search" ~> task[r].pc = "done")

\* The third goroutine is through and its listing is in the list, while the
\* Search of the first and of the second are still out
C23_Witness ==
  /\ pc = "aggregate"
  /\ task["Amazon"].pc = "search"
  /\ task["eBay"].pc = "search"
  /\ ReturnedNormally("Flipkart")
  /\ Count(Elems(allProducts), ListingF1) = 1

(* -------------------------------- C24 ---------------------------------- *)

\* The goroutines between Lock and Unlock of each mutex
InAddProducts == { r \in Retrievers : task[r].pc = "prodLocked" }

InAddError == { r \in Retrievers : task[r].pc = "errLocked" }

C24_State ==
  /\ Cardinality(InAddProducts) <= 1
  /\ Cardinality(InAddError) <= 1
  /\ \A r \in Retrievers : r \in InAddProducts <=> mu = r
  /\ \A r \in Retrievers : r \in InAddError <=> errorMu = r
  /\ \A r \in Retrievers : ~(mu = r /\ errorMu = r)

\* A step of scrapeAllSources that changes a list is the append of the
\* goroutine that holds the list's lock: all that its Search returned, in the
\* order it returned it, at the end of the list
AppendsUnderLock ==
  pc = "aggregate" =>
    /\ Elems(allProducts') # Elems(allProducts) =>
         \E r \in Retrievers :
           /\ mu = r /\ mu' = Free
           /\ Elems(allProducts') = Elems(allProducts) \o Elems(task[r].out.products)
    /\ scraperErrors' # scraperErrors =>
         \E r \in Retrievers :
           /\ errorMu = r /\ errorMu' = Free
           /\ task[r].out.err
           /\ scraperErrors' = Append(scraperErrors, r)

\* C24: during aggregation the listings and the errors are modified only by
\* the goroutine that holds mu, respectively errorMu: at most one goroutine
\* is inside each append, none holds both locks, and each append puts one
\* retriever's listings at the end of the list as one block in their order.
C24_AppendsUnderLock ==
  /\ []C24_State
  /\ [][AppendsUnderLock]_vars

\* One goroutine is appending its listings after another's, a second one is
\* recording its error and a third waits for mu
C24_Witness ==
  /\ mu # Free
  /\ errorMu # Free
  /\ Len(Elems(allProducts)) >= 1
  /\ \E r \in Retrievers : task[r].pc = "addProducts"

(* ============ properties of calls that run at the same time ============ *)

\* Both callers sent the same request, both missed, both wrote and both are
\* back
BothWrote ==
  /\ \A c \in Callers : session[c].pc = "returned" /\ session[c].wrote
  /\ session["c1"].params = session["c2"].params
  /\ session["c1"].key = session["c2"].key

\* The cache entry of the request of caller c, decoded
Entry(c) == Some(Unmarshal(store[session[c].key]))

\* SetSearchResults of caller c stores its value in this step
Writes(c) ==
  /\ session[c].pc = "store"
  /\ session'[c].pc = "returned"
  /\ session'[c].wrote

\* C25 (as the code has it): each cache write replaces the whole entry of its
\* key with the response of the caller that writes and touches no other key,
\* so after two identical requests that ran at the same time and both wrote,
\* the entry is the response of the one that wrote last; it is the response of
\* both only when both computed the same response.
C25_LastWriteWins ==
  /\ [][\A c \in Callers :
          Writes(c) =>
            /\ session[c].key = GenerateSearchKey(session[c].params)
            /\ store'[session[c].key] = Marshal(Val(session[c].response))[2]
            /\ Unmarshal(store'[session[c].key]) = Val(session'[c].result.response)
            /\ \A k \in DOMAIN store \ { session[c].key } :
                 k \in DOMAIN store' /\ store'[k] = store[k]]_vars
  /\ [](BothWrote =>
          /\ \E c \in Callers : Entry(c) = session[c].result.response
          /\ session["c1"].result = session["c2"].result =>
               \A c \in Callers : Entry(c) = session[c].result.response)

\* Both calls wrote, and the site had shown them different results
C25_Witness ==
  /\ BothWrote
  /\ Val(session["c1"].result.response).Total # Val(session["c2"].result.response).Total

\* C25 (as stated): after two identical requests that ran at the same time,
\* both missed and both wrote, the cache entry is the same whatever the order
\* of the writes: it is the response both callers received, apart from the
\* duration, also when the retrievers answered the two differently.
C25_DuplicateWritesIdempotent ==
  BothWrote => \A c \in Callers : SameButDuration(Entry(c), session[c].result.response)

(* -------------------------------- C26 ---------------------------------- *)

\* The listing comes from the page visit of caller c's own call, for its own
\* query and region
OwnListing(c, p) ==
  /\ p.ScrapedAt = VisitId(c, session[c].n)
  /\ \E es \in Pages(session[c].params.Query) : \E i \in 1..Len(es) : es[i].name = p.Name
  /\ p.Source = << "A", "m", "a", "z", "o", "n", " " >> \o ToUpper(session[c].params.Country)

\* The aggregate of caller c's call is there
Aggregated(c) == session[c].pc \in { "respond", "store" }

\* Nothing a call of caller c registered is left on the scraper of the service
NothingLeft(c) == \A i \in 1..Len(collector) : collector[i].owner # c

\* C26: calls on one SearchService, at the same time or one after another, are
\* isolated: every listing in a call's aggregate comes from a page visit made
\* for that call's own query and region, a callback one Search registered
\* never appends what another call's visit found, and when a call is over
\* nothing of it is left on the shared scraper.
C26_RequestsIsolated ==
  \A c \in Callers :
    /\ Aggregated(c) =>
         \A i \in 1..Len(session[c].aggregate) : OwnListing(c, session[c].aggregate[i])
    /\ session[c].pc \in { "idle", "returned" } => NothingLeft(c)

(* ================== properties of the cache failures =================== *)

\* The call computed its response: it was not served from the cache
Computed == pc = "returned" /\ result.kind = "ok" /\ ~Hit

C27_State ==
  /\ Hit => ~faults
  /\ (faults /\ pc \in { "aggregate", "normalize", "filter", "sort", "paginate", "store" }) =>
       cacheGets = 1 /\ cacheSets = 0 /\ result = NoResult
  /\ (Finished /\ faults) => result.kind # "error" /\ AggregateRan
  /\ Computed =>
       /\ trace = Stages
       /\ result.response = Some(LiveResponse)
       /\ \A r \in Retrievers : calls[r] = InvocationsDue(r)
       /\ cacheAvail => cacheGets = 1 /\ cacheSets = 1

\* With a usable cache the write is attempted, whatever the read did
WriteAttempted == (pc = "store" /\ cacheAvail) => cacheSets' = cacheSets + 1

\* C27: a cache read that fails, by a backend error or an undecodable value,
\* is treated as a miss, and a cache write that fails is swallowed: the call
\* runs the whole aggregation and pipeline and returns the response an
\* ordinary miss with a successful write returns for the same listings; a
\* failed read does not keep the write from being attempted.
C27_CacheFailuresAbsorbed ==
  /\ []C27_State
  /\ [][WriteAttempted]_vars

\* A call whose read and write both failed returned its listings
C27_Witness ==
  /\ Computed
  /\ faults
  /\ cacheGets = 1 /\ cacheSets = 1
  /\ cacheKey \notin DOMAIN store
  /\ Val(result.response).Total >= 1

(* ==================== properties of the sort, the page ================= *)

\* a comes before b, or level with it, by the field, ascending
KeyAtMost(a, b, field) ==
  CASE field = StrPrice -> a.PriceValue <= b.PriceValue
    [] field = << "r", "a", "t", "i", "n", "g" >> -> ParseRating(a.Rating) <= ParseRating(b.Rating)
    [] field = << "n", "a", "m", "e" >> -> a.Name = b.Name \/ StrLess(a.Name, b.Name)

\* out holds the listings of products, each as often as products does
SameListings(products, out) ==
  /\ Len(out) = Len(products)
  /\ \A i \in 1..Len(products) : Count(out, products[i]) = Count(products, products[i])

\* C28: for every slice and every valid sort, applySorting leaves a
\* permutation of the slice, no listing added, dropped or altered, ordered by
\* the normalized price, the parsed rating or the name as requested,
\* ascending or descending; with no sort the slice stays as it is, in
\* aggregation order.
C28_SortedPermutation ==
  SortDone =>
    LET products == fnArgs[1]
        out      == Val(fnOut)
    IN  IF IsNil(fnArgs[2]) THEN out = products
        ELSE /\ SameListings(products, out)
             /\ Val(fnArgs[2]).Field \in ValidFields /\ Val(fnArgs[2]).Order \in ValidOrders
             /\ \A i, j \in 1..Len(out) :
                  i < j =>
                    IF Val(fnArgs[2]).Order = StrDesc
                    THEN KeyAtMost(out[j], out[i], Val(fnArgs[2]).Field)
                    ELSE KeyAtMost(out[i], out[j], Val(fnArgs[2]).Field)

\* Three listings came out by descending price in another order than they
\* went in
C28_Witness ==
  /\ SortDone
  /\ fnArgs[2] = Some(MkSort(StrPrice, StrDesc))
  /\ Len(Val(fnOut)) = 3
  /\ Val(fnOut) # fnArgs[1]
  /\ Val(fnOut)[1].PriceValue > Val(fnOut)[3].PriceValue

(* -------------------------------- C29 ---------------------------------- *)

\* min(limit, max(0, total - (page - 1) * limit)) over the integers, for a
\* page >= 1 and a limit in 1..100; a page beyond 2^24 lies beyond any total
\* of the model
PageLength(total, page, limit) ==
  IF ~I64IsSmallNat(page) THEN 0
  ELSE LET rest == total - (I64ToNat(page) - 1) * I64ToNat(limit)
       IN  IF rest <= 0 THEN 0
           ELSE IF rest < I64ToNat(limit) THEN rest ELSE I64ToNat(limit)

\* The fields of a response agree with each other and with the request
Consistent(resp, req) ==
  /\ resp.Page = CoercedPage(req)
  /\ resp.Limit = CoercedLimit(req)
  /\ resp.TotalPages = Ceiling(resp.Total, I64ToNat(resp.Limit))
  /\ ~IsNil(resp.Products)
  /\ Len(Val(resp.Products)) = PageLength(resp.Total, resp.Page, resp.Limit)

\* C29: every response SearchProducts returns, computed or served from the
\* cache, has Page and Limit equal to the coerced page and page size of the
\* request, TotalPages = ceil(Total / Limit), a listing list that is not
\* null and holds min(Limit, max(0, Total - (Page - 1) * Limit)) listings;
\* and the Total of a computed response is the number of listings left by
\* the filter, counted before pagination.
C29_ResponseConsistent ==
  (pc = "returned" /\ result.kind = "ok") =>
    /\ Consistent(Val(result.response), request)
    /\ ~Hit => Val(result.response).Total = Len(Elems(filteredProducts))

(* -------------------------------- C30 ---------------------------------- *)

\* The largest int: 2^63 - 1
MaxInt64 == [i \in 1..NumLimbs |-> IF i = NumLimbs THEN LimbBase \div 2 - 1 ELSE LimbBase - 1]

\* x \div d for a non-negative x and d in 1..100, from the top limb down
RECURSIVE DivSmall(_, _, _, _)
DivSmall(x, i, rem, d) ==
  IF i = 0 THEN <<>>
  ELSE LET t == rem * LimbBase + x[i]
       IN  DivSmall(x, i - 1, t % d, d) \o << t \div d >>

\* (page - 1) * limit fits an int: page - 1 <= (2^63 - 1) \div limit
Fits(page, limit) ==
  I64Le(I64Sub(page, I64One), DivSmall(MaxInt64, NumLimbs, 0, I64ToNat(limit)))

\* C30: for every page >= 1 that parseSearchParams can pass and every page
\* size in 1..100, the start index (page - 1) * limit of applyPagination does
\* not wrap around in 64 bits: it is not negative, the slice bounds lie
\* within 0..total so that no slice expression panics, and a page beyond the
\* last yields the empty page.
C30_StartDoesNotWrap ==
  PaginationDone =>
    LET total == Len(fnArgs[1])
        page  == fnArgs[2]
        limit == fnArgs[3]
        start == I64Mul(I64Sub(page, I64One), limit)
    IN  /\ Fits(page, limit)
        /\ ~I64IsNeg(start)
        /\ ~Val(fnOut).panic
        /\ Len(Val(fnOut).products) <= total
        /\ I64Lt(I64(Ceiling(total, I64ToNat(limit))), page) => Val(fnOut).products = <<>>

====
